---- MODULE Spec2Model ----
(***************************************************************************)
(* The reduced-graph builder of librustc_resolve                           *)
(* (src/librustc_resolve/build_reduced_graph.rs) as a state machine.       *)
(*                                                                         *)
(* Modules and NameBindings live in two arenas (sequences); an Rc<Module>  *)
(* or Rc<NameBindings> is the index of the value in its arena, so that     *)
(* identity of a cell or a module is observable.  Option<T> is a sequence  *)
(* of length 0 (None) or 1 (Some).                                         *)
(***************************************************************************)
EXTENDS Integers, Sequences, FiniteSets, TLC

VARIABLES
    modules,             \* arena of Module values; graph_root is module 1
    cells,               \* arena of NameBindings values
    diags,               \* what the session sink received, in order
    external_exports,    \* Resolver.external_exports
    structs,             \* Resolver.structs: DefId -> field names
    trait_item_map,      \* Resolver.trait_item_map: (Name, DefId) -> DefId
    unresolved_imports,  \* Resolver.unresolved_imports
    parents,             \* the visitor's current parent, with the saved old_parents below it
    next_node_id,        \* the next NodeId the crate tree hands out
    nitems,              \* items visited so far
    npopulates,          \* calls of the public populate_module_if_necessary so far
    aborted,             \* TRUE once handle_external_def has panicked
    calls,               \* the calls the last handler made, with what each saw (history)
    walked,              \* the crate tree as far as the visitor has walked it: the items
                         \* in visiting order, "leave" where the walk of an item's
                         \* children ends
    frames,              \* the call stack of a population that is run one child at a
                         \* time: the loops over the children the crate store reported
    cmdline,             \* bootstrap: the arguments Flags::parse is called with
    flags                \* bootstrap: what Flags::parse made of them, once it has run

vars == <<modules, cells, diags, external_exports, structs, trait_item_map,
          unresolved_imports, parents, next_node_id, nitems, npopulates, aborted, calls,
          walked, frames, cmdline, flags>>

(***************************************************************************)
(* Bounds of the model.                                                    *)
(***************************************************************************)
MaxItems == 2
MaxPopulates == 2
MaxArgs == 3

(***************************************************************************)
(* Values.                                                                 *)
(***************************************************************************)
Names == {"a", "b"}

None == <<>>
Some(x) == <<x>>
IsSome(o) == Len(o) = 1
IsNone(o) == Len(o) = 0
Unwrap(o) == o[1]

LOCAL_CRATE == 0
CRATE_DEF_INDEX == 0
DUMMY_SP == 0

MkDefId(krate, index) == [krate |-> krate, index |-> index]
\* the DefId slot of a Def that has no second DefId
NoDefId == [krate |-> 0 - 1, index |-> 0 - 1]
\* ast_map.local_def_id
local_def_id(node_id) == MkDefId(LOCAL_CRATE, node_id)

PUBLIC == "PUBLIC"
IMPORTABLE == "IMPORTABLE"

TypeNS == "TypeNS"
ValueNS == "ValueNS"

NormalModuleKind == "Normal"
TraitModuleKind == "Trait"
EnumModuleKind == "Enum"
TypeModuleKind == "Type"
AnonymousModuleKind == "Anonymous"

ForbidDuplicateModules == "ForbidDuplicateModules"
ForbidDuplicateTypesAndModules == "ForbidDuplicateTypesAndModules"
ForbidDuplicateValues == "ForbidDuplicateValues"
ForbidDuplicateTypesAndValues == "ForbidDuplicateTypesAndValues"
OverwriteDuplicates == "OverwriteDuplicates"

NoError == "NoError"
ModuleError == "ModuleError"
TypeError == "TypeError"
ValueError == "ValueError"

namespace_error_to_string(ns) ==
    CASE ns = NoError -> ""
      [] ns \in {ModuleError, TypeError} -> "type or module"
      [] ns = ValueError -> "value"

\* rustc::middle::def::Def, one record shape for all variants
MkDef(tag, did, did2, flag) == [tag |-> tag, def_id |-> did, aux_id |-> did2, flag |-> flag]
DefMod(d) == MkDef("Mod", d, NoDefId, FALSE)
DefForeignMod(d) == MkDef("ForeignMod", d, NoDefId, FALSE)
DefStruct(d) == MkDef("Struct", d, NoDefId, FALSE)
DefTy(d, is_enum) == MkDef("Ty", d, NoDefId, is_enum)
DefTrait(d) == MkDef("Trait", d, NoDefId, FALSE)
\* Def::def_id() of AssociatedTy and Variant is the item's own id (the second one)
DefAssociatedTy(trait_id, d) == MkDef("AssociatedTy", d, trait_id, FALSE)
DefVariant(enum_id, d, is_struct) == MkDef("Variant", d, enum_id, is_struct)
DefFn(d, is_ctor) == MkDef("Fn", d, NoDefId, is_ctor)
DefStatic(d, mutbl) == MkDef("Static", d, NoDefId, mutbl)
DefConst(d) == MkDef("Const", d, NoDefId, FALSE)
DefAssociatedConst(d) == MkDef("AssociatedConst", d, NoDefId, FALSE)
DefMethod(d) == MkDef("Method", d, NoDefId, FALSE)
DefLocal(d) == MkDef("Local", d, NoDefId, FALSE)

\* ParentLink
RootLink == [tag |-> "Root", parent |-> 0, name |-> "", block |-> 0]
ModuleParentLink(p, name) == [tag |-> "ModuleParent", parent |-> p, name |-> name, block |-> 0]
BlockParentLink(p, block_id) == [tag |-> "BlockParent", parent |-> p, name |-> "", block |-> block_id]

EmptyMap == [x \in {} |-> 0]
MapInsert(m, k, v) == [x \in DOMAIN m \cup {k} |-> IF x = k THEN v ELSE m[x]]

\* Module::new
ModuleNew(parent_link, def_id, kind, external, is_public) ==
    [parent_link |-> parent_link,
     def_id |-> def_id,
     kind |-> kind,
     is_public |-> is_public,
     is_external |-> external,
     populated |-> ~external,
     children |-> EmptyMap,
     anonymous_children |-> EmptyMap,
     external_module_children |-> EmptyMap,
     imports |-> <<>>,
     import_resolutions |-> EmptyMap,
     glob_count |-> 0,
     pub_glob_count |-> 0,
     pub_count |-> 0]

\* NameBindings::new
NameBindingsNew == [type_def |-> None, value_def |-> None]

\* the builder's view of the Resolver, threaded through the handlers
World ==
    [modules |-> modules, cells |-> cells, diags |-> diags,
     external_exports |-> external_exports, structs |-> structs,
     trait_item_map |-> trait_item_map, unresolved_imports |-> unresolved_imports,
     aborted |-> aborted, calls |-> <<>>, ret |-> 0]

\* session.span_err / span_warn / span_note and resolve_error
Emit(w, level, msg, ns, name, sp) ==
    [w EXCEPT !.diags = Append(@, [level |-> level, msg |-> msg, ns |-> ns,
                                   name |-> name, span |-> sp])]

(***************************************************************************)
(* NameBindings.                                                           *)
(***************************************************************************)
\* NameBindings::defined_in_namespace
defined_in_namespace(cell, ns) ==
    IF ns = TypeNS THEN IsSome(cell.type_def) ELSE IsSome(cell.value_def)

\* NameBindings::get_module_if_available
get_module_if_available(cell) ==
    IF IsSome(cell.type_def) THEN Unwrap(cell.type_def).module_def ELSE None

\* NameBindings::def_for_namespace; mods is the module arena
def_for_namespace(mods, cell, ns) ==
    IF ns = TypeNS
    THEN IF IsNone(cell.type_def) THEN None
         ELSE LET td == Unwrap(cell.type_def) IN
              IF IsSome(td.type_def) THEN td.type_def
              ELSE IF IsSome(td.module_def)
                   THEN LET did == mods[Unwrap(td.module_def)].def_id IN
                        IF IsSome(did) THEN Some(DefMod(Unwrap(did))) ELSE None
                   ELSE None
    ELSE IF IsNone(cell.value_def) THEN None
         ELSE Some(Unwrap(cell.value_def).def)

\* NameBindings::span_for_namespace
span_for_namespace(cell, ns) ==
    IF ~defined_in_namespace(cell, ns) THEN None
    ELSE IF ns = TypeNS THEN Unwrap(cell.type_def).type_span
         ELSE Unwrap(cell.value_def).value_span

\* faulty modifiers that make every item public
ModifiersAlwaysPublic(is_public) ==
    {PUBLIC, IMPORTABLE}

ModifiersFor(is_public) ==
    (IF is_public THEN {PUBLIC} ELSE {}) \cup {IMPORTABLE}

\* NameBindings::define_value on cell c
define_value(w, c, def, sp, modifiers) ==
    [w EXCEPT !.cells[c].value_def =
        Some([def |-> def, modifiers |-> modifiers, value_span |-> Some(sp)])]

\* NameBindings::define_type on cell c: the module of the slot, if any, is kept
define_type(w, c, def, sp, modifiers) ==
    LET old == w.cells[c].type_def IN
    [w EXCEPT !.cells[c].type_def =
        Some([modifiers |-> modifiers,
              module_def |-> IF IsSome(old) THEN Unwrap(old).module_def ELSE None,
              type_def |-> Some(def),
              type_span |-> Some(sp)])]

\* NameBindings::define_module on cell c: a fresh Module takes the slot's module
define_module(w, c, parent_link, def_id, kind, external, is_public, sp) ==
    LET old == w.cells[c].type_def
        m == Len(w.modules) + 1
    IN [w EXCEPT
          !.modules = Append(@, ModuleNew(parent_link, def_id, kind, external, is_public)),
          !.cells[c].type_def =
              Some([modifiers |-> ModifiersFor(is_public),
                    module_def |-> Some(m),
                    type_def |-> IF IsSome(old) THEN Unwrap(old).type_def ELSE None,
                    type_span |-> Some(sp)])]

\* NameBindings::set_module_kind on cell c: a module already in the slot only
\* changes its kind; otherwise a fresh Module is put beside the Def of the slot
set_module_kind(w, c, parent_link, def_id, kind, external, is_public, sp) ==
    LET old == w.cells[c].type_def
        m == Len(w.modules) + 1
    IN IF IsSome(old) /\ IsSome(Unwrap(old).module_def)
       THEN [w EXCEPT !.modules[Unwrap(Unwrap(old).module_def)].kind = kind]
       ELSE [w EXCEPT
               !.modules = Append(@, ModuleNew(parent_link, def_id, kind, external, is_public)),
               !.cells[c].type_def =
                   Some([modifiers |-> ModifiersFor(is_public),
                         module_def |-> Some(m),
                         type_def |-> IF IsSome(old) THEN Unwrap(old).type_def ELSE None,
                         type_span |-> None])]

\* NameBindings::get_module (the callers below call it only after a module was put)
get_module(w, c) == Unwrap(Unwrap(w.cells[c].type_def).module_def)

(***************************************************************************)
(* Module counters and the conflict checks of the Resolver.                *)
(***************************************************************************)
\* Module::inc_glob_count
inc_glob_count(w, m) == [w EXCEPT !.modules[m].glob_count = @ + 1]
\* Module::inc_pub_glob_count
inc_pub_glob_count(w, m) == [w EXCEPT !.modules[m].pub_glob_count = @ + 1]
\* Module::inc_pub_count
inc_pub_count(w, m) == [w EXCEPT !.modules[m].pub_count = @ + 1]

\* Resolver::check_for_conflicts_between_external_crates_and_items
check_for_conflicts_between_external_crates_and_items(w, module, name, sp) ==
    IF name \in DOMAIN w.modules[module].external_module_children
    THEN Emit(w, "error", "NameConflictsWithExternalCrate", "", name, sp)
    ELSE w

\* Resolver::check_for_conflicts_between_external_crates
check_for_conflicts_between_external_crates(w, module, name, sp) ==
    IF name \in DOMAIN w.modules[module].external_module_children
    THEN Emit(w, "error", "ExternalCrateAlreadyImported", "", name, sp)
    ELSE w

(***************************************************************************)
(* GraphBuilder::add_child.  The result's ret is the cell returned.        *)
(***************************************************************************)
\* a faulty check that takes any type binding for a module and, where both types and
\* values are forbidden, looks at the type before the value
DuplicateTypeConfused(mods, child, mode) ==
    CASE mode \in {ForbidDuplicateModules, ForbidDuplicateTypesAndModules} ->
            IF defined_in_namespace(child, TypeNS) THEN TypeError ELSE NoError
      [] mode = ForbidDuplicateValues ->
            IF defined_in_namespace(child, ValueNS) THEN ValueError ELSE NoError
      [] mode = ForbidDuplicateTypesAndValues ->
            IF defined_in_namespace(child, TypeNS) THEN TypeError
            ELSE IF defined_in_namespace(child, ValueNS) THEN ValueError
            ELSE NoError
      [] mode = OverwriteDuplicates -> NoError

\* the duplicate_type that add_child computes for an existing child
DuplicateType(mods, child, mode) ==
    CASE mode = ForbidDuplicateModules ->
            IF IsSome(get_module_if_available(child)) THEN ModuleError ELSE NoError
      [] mode = ForbidDuplicateTypesAndModules ->
            IF defined_in_namespace(child, TypeNS) THEN TypeError ELSE NoError
      [] mode = ForbidDuplicateValues ->
            IF defined_in_namespace(child, ValueNS) THEN ValueError ELSE NoError
      [] mode = ForbidDuplicateTypesAndValues ->
            LET d == def_for_namespace(mods, child, TypeNS) IN
            IF defined_in_namespace(child, ValueNS) THEN ValueError
            ELSE IF IsSome(d) /\ Unwrap(d).tag # "Mod" THEN TypeError
            ELSE NoError
      [] mode = OverwriteDuplicates -> NoError

\* the namespace ns that add_child looks the first definition up in
DuplicateNamespace(mods, child, mode) ==
    CASE mode \in {ForbidDuplicateModules, ForbidDuplicateTypesAndModules} -> Some(TypeNS)
      [] mode = ForbidDuplicateValues -> Some(ValueNS)
      [] mode = ForbidDuplicateTypesAndValues ->
            LET d == def_for_namespace(mods, child, TypeNS) IN
            IF defined_in_namespace(child, ValueNS) THEN Some(ValueNS)
            ELSE IF IsSome(d) /\ Unwrap(d).tag # "Mod" THEN Some(TypeNS)
            ELSE None
      [] mode = OverwriteDuplicates -> None

\* the record of one add_child call: what it was asked, the cell it found, the cell
\* it returned and the diagnostics it sent
AddChildCall(w0, w, name, parent, mode, sp, pre, c) ==
    [op |-> "add_child", name |-> name, parent |-> parent, mode |-> mode, span |-> sp,
     pre |-> pre, cell |-> c,
     emitted |-> SubSeq(w.diags, Len(w0.diags) + 1, Len(w.diags))]

\* a faulty add_child that never looks the name up: every call makes a fresh cell and
\* puts it into the map in place of the one that was there
add_child_fresh(w0, name, parent, duplicate_checking_mode, sp) ==
    LET w == check_for_conflicts_between_external_crates_and_items(w0, parent, name, sp)
        c == Len(w.cells) + 1
    IN [w EXCEPT !.cells = Append(@, NameBindingsNew),
                 !.modules[parent].children = MapInsert(@, name, c),
                 !.ret = c,
                 !.calls = Append(@, AddChildCall(w0, w, name, parent,
                                          duplicate_checking_mode, sp, None, c))]

\* the None arm of add_child: a fresh cell c is added to the parent's children
AddNewChild(w0, w, name, parent, mode, sp, c) ==
    [w EXCEPT !.cells = Append(@, NameBindingsNew),
              !.modules[parent].children = MapInsert(@, name, c),
              !.ret = c,
              !.calls = Append(@, AddChildCall(w0, w, name, parent, mode, sp, None, c))]

\* the note on the first definition, when the namespace of the duplicate has a span r
FirstDefinitionNote(w, r, duplicate_type, name) ==
    IF IsSome(r)
    THEN Emit(w, "note", "FirstDefinitionHere",
              namespace_error_to_string(duplicate_type), name, Unwrap(r))
    ELSE w

\* the report of add_child when duplicate_type is an error: ns is the namespace
\* that had the duplicate
ReportDuplicate(w, child, duplicate_type, ns, name, sp) ==
    IF duplicate_type = NoError THEN w
    ELSE FirstDefinitionNote(
             Emit(w, "error", "DuplicateDefinition",
                  namespace_error_to_string(duplicate_type), name, sp),
             span_for_namespace(child, Unwrap(ns)), duplicate_type, name)

\* the Some(child) arm of add_child: the cell c found is returned, after the report
ReturnChild(w0, w, child, name, parent, mode, sp, c) ==
    [w EXCEPT !.ret = c,
              !.calls = Append(@, AddChildCall(w0, w, name, parent, mode, sp,
                                               Some(child), c))]

\* add_child on the world w that the check for conflicts with extern crates left
AddChildChecked(w0, w, child, name, parent, mode, sp) ==
    IF name \notin DOMAIN w.modules[parent].children
    THEN AddNewChild(w0, w, name, parent, mode, sp, Len(w.cells) + 1)
    ELSE ReturnChild(w0,
                     ReportDuplicate(w, Unwrap(child),
                                     DuplicateType(w.modules, Unwrap(child), mode),
                                     DuplicateNamespace(w.modules, Unwrap(child), mode),
                                     name, sp),
                     Unwrap(child), name, parent, mode, sp,
                     w.modules[parent].children[name])

\* parent.children.borrow().get(&name)
GetChild(w, name, parent) ==
    IF name \in DOMAIN w.modules[parent].children
    THEN Some(w.cells[w.modules[parent].children[name]])
    ELSE None

\* GraphBuilder::add_child
add_child(w0, name, parent, duplicate_checking_mode, sp) ==
    AddChildChecked(w0,
                    check_for_conflicts_between_external_crates_and_items(w0, parent, name, sp),
                    GetChild(w0, name, parent),
                    name, parent, duplicate_checking_mode, sp)

\* a faulty get_parent_link that links every module to the crate root
get_parent_link_to_root(parent, name) == ModuleParentLink(1, name)

\* a faulty get_parent_link that reads the visitor's parent of the moment in the
\* place of the module it is given
get_parent_link_of_visitor(parent, name) == ModuleParentLink(parents[Len(parents)], name)

\* GraphBuilder::get_parent_link
get_parent_link(parent, name) == ModuleParentLink(parent, name)

(***************************************************************************)
(* GraphBuilder::build_import_directive.                                   *)
(***************************************************************************)
SingleImport(target, source) == [tag |-> "SingleImport", target |-> target, source |-> source]
GlobImport == [tag |-> "GlobImport", target |-> "", source |-> ""]

ShadowableAlways == "Always"
ShadowableNever == "Never"

\* ImportDirective::new
ImportDirectiveNew(module_path, subclass, span, id, is_public, shadowable) ==
    [module_path |-> module_path, subclass |-> subclass, span |-> span, id |-> id,
     is_public |-> is_public, shadowable |-> shadowable]

\* ImportResolution::new
ImportResolutionNew(id, is_public) ==
    [outstanding_references |-> 0, type_id |-> id, value_id |-> id, is_public |-> is_public]

\* a faulty bump that counts the reference and keeps the ids and the publicity of the
\* first directive
BumpReferenceKeepsSource(resolution, id, is_public) ==
    [resolution EXCEPT !.outstanding_references = @ + 1]

\* a faulty bump that leaves the reference count as it was
BumpReferenceKeepsCount(resolution, id, is_public) ==
    [resolution EXCEPT !.type_id = id, !.value_id = id, !.is_public = is_public]

\* a faulty glob arm that counts a glob twice
GlobCountsTwice(w, module_, is_public) ==
    LET w1 == inc_glob_count(inc_glob_count(w, module_), module_) IN
    IF is_public THEN inc_pub_glob_count(w1, module_) ELSE w1

\* a faulty glob arm that counts every glob as a public one
GlobCountsAllPublic(w, module_, is_public) ==
    inc_pub_glob_count(inc_glob_count(w, module_), module_)

\* the Some(resolution) arm: the reference is bumped and the ids and the publicity
\* become those of the new directive
BumpReference(resolution, id, is_public) ==
    [resolution EXCEPT !.outstanding_references = @ + 1,
                       !.type_id = id, !.value_id = id, !.is_public = is_public]

\* the GlobImport arm
GlobCounts(w, module_, is_public) ==
    LET w1 == inc_glob_count(w, module_) IN
    IF is_public THEN inc_pub_glob_count(w1, module_) ELSE w1

\* a faulty build_import_directive that forgets the resolver's counter
build_import_directive_uncounted(w0, module_, module_path, subclass, span, id, is_public, shadowable) ==
    LET w1 == [w0 EXCEPT
                 !.modules[module_].imports =
                     Append(@, ImportDirectiveNew(module_path, subclass, span, id,
                                                  is_public, shadowable))]
        w2 == IF is_public THEN inc_pub_count(w1, module_) ELSE w1
        target == subclass.target
        import_resolutions == w2.modules[module_].import_resolutions
    IN IF subclass.tag = "SingleImport"
       THEN IF target \in DOMAIN import_resolutions
            THEN [w2 EXCEPT !.modules[module_].import_resolutions[target] =
                     BumpReference(@, id, is_public)]
            ELSE [w2 EXCEPT !.modules[module_].import_resolutions =
                     MapInsert(@, target,
                         [ImportResolutionNew(id, is_public)
                             EXCEPT !.outstanding_references = 1])]
       ELSE GlobCounts(w2, module_, is_public)

build_import_directive(w0, module_, module_path, subclass, span, id, is_public, shadowable) ==
    LET w1 == [w0 EXCEPT
                 !.modules[module_].imports =
                     Append(@, ImportDirectiveNew(module_path, subclass, span, id,
                                                  is_public, shadowable)),
                 !.unresolved_imports = @ + 1]
        w2 == IF is_public THEN inc_pub_count(w1, module_) ELSE w1
        target == subclass.target
        import_resolutions == w2.modules[module_].import_resolutions
    IN IF subclass.tag = "SingleImport"
       THEN IF target \in DOMAIN import_resolutions
            THEN [w2 EXCEPT !.modules[module_].import_resolutions[target] =
                     BumpReference(@, id, is_public)]
            ELSE [w2 EXCEPT !.modules[module_].import_resolutions =
                     MapInsert(@, target,
                         [ImportResolutionNew(id, is_public)
                             EXCEPT !.outstanding_references = 1])]
       ELSE GlobCounts(w2, module_, is_public)

(***************************************************************************)
(* The crate store (session.cstore): three previously compiled crates.     *)
(* Crate 1 holds a module (in which a module and an enum share a name, and *)
(* which holds a foreign module), an enum with its variants and a foreign  *)
(* module;                                                                 *)
(* crate 2 a trait, structs (one reports a SelfTy def as its child),       *)
(* tuple-struct constructors, an impl and a field; crate 3 a private module a, a public module b that re-exports a  *)
(* (`pub use a;`), and a module c with a def that is no module child.      *)
(***************************************************************************)
Child(def_like, def, name, is_public) ==
    [def_like |-> def_like, def |-> def, name |-> name, is_public |-> is_public]
DlDef(def, name, is_public) == Child("DlDef", def, name, is_public)
DlImpl == Child("DlImpl", DefLocal(NoDefId), "", FALSE)
DlField == Child("DlField", DefLocal(NoDefId), "", FALSE)

CrateNums == {1, 2, 3}

\* csearch::each_child_of_item
each_child_of_item(def_id) ==
    LET k == def_id.krate
        D(i) == MkDefId(k, i)
    IN CASE def_id = MkDefId(1, CRATE_DEF_INDEX) ->
              << DlDef(DefMod(D(1)), "a", TRUE),
                 DlDef(DefTy(D(2), TRUE), "b", TRUE),
                 DlDef(DefForeignMod(D(3)), "", TRUE) >>
         [] def_id = MkDefId(1, 1) ->
              << DlDef(DefFn(D(11), FALSE), "a", TRUE),
                 DlDef(DefStatic(D(12), TRUE), "b", FALSE),
                 DlDef(DefMod(D(13)), "c", TRUE),
                 DlDef(DefTy(D(14), TRUE), "c", FALSE),
                 DlDef(DefForeignMod(D(15)), "", TRUE) >>
         [] def_id = MkDefId(1, 15) ->
              << DlDef(DefFn(D(151), FALSE), "d", TRUE) >>
         [] def_id = MkDefId(1, 2) ->
              << DlDef(DefVariant(D(2), D(21), FALSE), "a", TRUE),
                 DlDef(DefVariant(D(2), D(22), TRUE), "b", FALSE),
                 DlDef(DefConst(D(23)), "a", TRUE) >>
         [] def_id = MkDefId(1, 14) ->
              << DlDef(DefVariant(D(14), D(141), FALSE), "a", FALSE),
                 DlDef(DefVariant(D(14), D(142), TRUE), "a", TRUE),
                 DlDef(DefStatic(D(143), FALSE), "a", FALSE) >>
         [] def_id = MkDefId(1, 3) ->
              << DlDef(DefFn(D(31), FALSE), "c", TRUE),
                 DlDef(DefStatic(D(32), FALSE), "a", FALSE) >>
         [] def_id = MkDefId(2, CRATE_DEF_INDEX) ->
              << DlDef(DefTrait(D(1)), "a", TRUE),
                 DlImpl,
                 DlDef(DefStruct(D(2)), "b", TRUE),
                 DlDef(DefTy(D(4), FALSE), "c", FALSE),
                 DlDef(DefFn(D(5), TRUE), "c", FALSE),
                 DlDef(DefFn(D(6), TRUE), "d", TRUE),
                 DlDef(DefStruct(D(7)), "e", FALSE) >>
         [] def_id = MkDefId(2, 1) ->
              << DlDef(DefMethod(D(11)), "a", TRUE),
                 DlDef(DefAssociatedTy(D(1), D(12)), "b", TRUE),
                 DlDef(DefAssociatedConst(D(13)), "c", TRUE) >>
         [] def_id = MkDefId(2, 2) ->
              << DlDef(MkDef("SelfTy", D(21), NoDefId, FALSE), "a", TRUE) >>
         [] def_id = MkDefId(2, 7) ->
              << DlField >>
         [] def_id = MkDefId(3, CRATE_DEF_INDEX) ->
              << DlDef(DefMod(D(1)), "a", FALSE),
                 DlDef(DefMod(D(2)), "b", TRUE),
                 DlDef(DefMod(D(3)), "c", TRUE) >>
         [] def_id = MkDefId(3, 1) ->
              << DlDef(DefConst(D(11)), "a", TRUE) >>
         [] def_id = MkDefId(3, 2) ->
              << DlDef(DefMod(D(1)), "a", TRUE) >>
         [] def_id = MkDefId(3, 3) ->
              << DlDef(DefLocal(D(31)), "b", TRUE) >>
         [] OTHER -> << >>

\* csearch::each_top_level_item_of_crate
each_top_level_item_of_crate(cnum) == each_child_of_item(MkDefId(cnum, CRATE_DEF_INDEX))

\* csearch::get_tuple_struct_definition_if_ctor
get_tuple_struct_definition_if_ctor(ctor_id) ==
    IF ctor_id = MkDefId(2, 5) THEN Some(MkDefId(2, 4)) ELSE None

\* csearch::get_trait_item_def_ids
get_trait_item_def_ids(def_id) ==
    IF def_id = MkDefId(2, 1)
    THEN << MkDefId(2, 11), MkDefId(2, 12), MkDefId(2, 13) >>
    ELSE << >>

\* csearch::get_trait_name
get_trait_name(def_id) ==
    CASE def_id = MkDefId(2, 11) -> "a"
      [] def_id = MkDefId(2, 12) -> "b"
      [] OTHER -> "c"

\* csearch::get_struct_field_names
get_struct_field_names(def_id) ==
    IF def_id = MkDefId(2, 7) THEN << "x" >> ELSE << >>

(***************************************************************************)
(* External-crate population.                                              *)
(***************************************************************************)
\* the loop over the trait items in handle_external_def's DefTrait arm
RECURSIVE ExternalTraitItems(_, _, _, _, _)
ExternalTraitItems(w, def_id, trait_item_def_ids, i, is_exported) ==
    IF i > Len(trait_item_def_ids) THEN w
    ELSE LET item_id == trait_item_def_ids[i]
             trait_item_name == get_trait_name(item_id)
             w1 == [w EXCEPT !.trait_item_map =
                        MapInsert(@, <<trait_item_name, def_id>>, item_id)]
             w2 == IF is_exported
                   THEN [w1 EXCEPT !.external_exports = @ \cup {item_id}]
                   ELSE w1
         IN ExternalTraitItems(w2, def_id, trait_item_def_ids, i + 1, is_exported)

\* the module kind handle_external_def picks for a def
ExternalModuleKind(def) ==
    CASE def.tag = "Ty" /\ def.flag -> EnumModuleKind
      [] def.tag = "Ty" /\ ~def.flag -> TypeModuleKind
      [] def.tag = "Struct" -> TypeModuleKind
      [] OTHER -> NormalModuleKind

\* a variant that looks at the visibility only
ExternalIsExportedIfPublic(w, is_public, new_parent) ==
    is_public

\* whether handle_external_def counts the def as exported
ExternalIsExported(w, is_public, new_parent) ==
    is_public /\
    LET did == w.modules[new_parent].def_id IN
    IF IsNone(did) THEN TRUE ELSE Unwrap(did) \in w.external_exports

\* a faulty first match that defines a module whatever the cell holds
ExternalModuleDefAlways(w, def, c, name, new_parent, is_public) ==
    IF def.tag \in {"Mod", "ForeignMod", "Struct", "Ty"}
    THEN define_module(w, c, get_parent_link(new_parent, name), Some(def.def_id),
                       ExternalModuleKind(def), TRUE, is_public, DUMMY_SP)
    ELSE w

\* the first match of handle_external_def: the module of a Mod, ForeignMod,
\* Struct or Ty def
ExternalModuleDef(w, def, c, name, new_parent, is_public) ==
    IF def.tag \in {"Mod", "ForeignMod", "Struct", "Ty"}
    THEN LET module_def == get_module_if_available(w.cells[c]) IN
         IF IsSome(module_def)
         THEN [w EXCEPT !.modules[Unwrap(module_def)].def_id = Some(def.def_id)]
         ELSE define_module(w, c, get_parent_link(new_parent, name), Some(def.def_id),
                            ExternalModuleKind(def), TRUE, is_public, DUMMY_SP)
    ELSE w

\* faulty modifiers that do not look at the kind of the parent module
ExternalValueModifiersAnyParent(w, c, new_parent, modifiers) ==
    LET value_def == w.cells[c].value_def
    IN IF IsSome(value_def)
       THEN (modifiers \ {IMPORTABLE}) \cup (Unwrap(value_def).modifiers \cap {IMPORTABLE})
       ELSE modifiers

\* the modifiers of an external Fn, Static, Const, AssociatedConst or Method
ExternalValueModifiers(w, c, new_parent, modifiers) ==
    LET value_def == w.cells[c].value_def
        m1 == IF IsSome(value_def)
              THEN (modifiers \ {IMPORTABLE})
                       \cup (Unwrap(value_def).modifiers \cap {IMPORTABLE})
              ELSE modifiers
    IN IF w.modules[new_parent].kind # NormalModuleKind
       THEN m1 \ {IMPORTABLE} ELSE m1

\* faulty modifiers of an external type: the kind of the module is not looked at
ExternalTypeModifiersAnyParent(w, new_parent, modifiers) ==
    modifiers

\* the modifiers of an external Ty or AssociatedTy
ExternalTypeModifiers(w, new_parent, modifiers) ==
    IF w.modules[new_parent].kind = NormalModuleKind
    THEN modifiers ELSE modifiers \ {IMPORTABLE}

\* faulty second match: a variant bound with the modifiers of its reported visibility
ExternalBindingsVariantAsReported(w, def, c, name, new_parent, is_public, modifiers, is_exported) ==
    CASE def.tag \in {"Mod", "ForeignMod"} -> w
      [] def.tag = "Variant" ->
            IF def.flag
            THEN [define_type(w, c, def, DUMMY_SP, modifiers)
                     EXCEPT !.structs = MapInsert(@, def.def_id, << >>)]
            ELSE define_value(w, c, def, DUMMY_SP, modifiers)
      [] def.tag = "Fn" /\ def.flag ->
            define_value(w, c,
                IF IsSome(get_tuple_struct_definition_if_ctor(def.def_id))
                THEN DefStruct(def.def_id) ELSE def,
                DUMMY_SP, modifiers)
      [] \/ def.tag = "Fn" /\ ~def.flag
         \/ def.tag \in {"Static", "Const", "AssociatedConst", "Method"} ->
            define_value(w, c, def, DUMMY_SP,
                         ExternalValueModifiers(w, c, new_parent, modifiers))
      [] def.tag = "Trait" ->
            LET w1 == ExternalTraitItems(w, def.def_id,
                          get_trait_item_def_ids(def.def_id), 1, is_exported)
                w2 == define_type(w1, c, def, DUMMY_SP, modifiers)
            IN set_module_kind(w2, c, get_parent_link(new_parent, name),
                               Some(def.def_id), TraitModuleKind, TRUE, is_public, DUMMY_SP)
      [] def.tag \in {"Ty", "AssociatedTy"} ->
            define_type(w, c, def, DUMMY_SP,
                        ExternalTypeModifiers(w, new_parent, modifiers))
      [] def.tag = "Struct" ->
            LET w1 == define_type(w, c, def, DUMMY_SP, modifiers)
                fields == get_struct_field_names(def.def_id)
                w2 == IF fields = << >>
                      THEN define_value(w1, c, def, DUMMY_SP, modifiers) ELSE w1
            IN [w2 EXCEPT !.structs = MapInsert(@, def.def_id, fields)]
      [] OTHER -> [w EXCEPT !.aborted = TRUE]

\* faulty second match: every constructor fn rebound as a struct
ExternalBindingsCtorAlwaysStruct(w, def, c, name, new_parent, is_public, modifiers, is_exported) ==
    CASE def.tag \in {"Mod", "ForeignMod"} -> w
      [] def.tag = "Variant" ->
            IF def.flag
            THEN [define_type(w, c, def, DUMMY_SP, {PUBLIC, IMPORTABLE})
                     EXCEPT !.structs = MapInsert(@, def.def_id, << >>)]
            ELSE define_value(w, c, def, DUMMY_SP, {PUBLIC, IMPORTABLE})
      [] def.tag = "Fn" /\ def.flag ->
            define_value(w, c,
                DefStruct(def.def_id), DUMMY_SP, modifiers)
      [] \/ def.tag = "Fn" /\ ~def.flag
         \/ def.tag \in {"Static", "Const", "AssociatedConst", "Method"} ->
            define_value(w, c, def, DUMMY_SP,
                         ExternalValueModifiers(w, c, new_parent, modifiers))
      [] def.tag = "Trait" ->
            LET w1 == ExternalTraitItems(w, def.def_id,
                          get_trait_item_def_ids(def.def_id), 1, is_exported)
                w2 == define_type(w1, c, def, DUMMY_SP, modifiers)
            IN set_module_kind(w2, c, get_parent_link(new_parent, name),
                               Some(def.def_id), TraitModuleKind, TRUE, is_public, DUMMY_SP)
      [] def.tag \in {"Ty", "AssociatedTy"} ->
            define_type(w, c, def, DUMMY_SP,
                        ExternalTypeModifiers(w, new_parent, modifiers))
      [] def.tag = "Struct" ->
            LET w1 == define_type(w, c, def, DUMMY_SP, modifiers)
                fields == get_struct_field_names(def.def_id)
                w2 == IF fields = << >>
                      THEN define_value(w1, c, def, DUMMY_SP, modifiers) ELSE w1
            IN [w2 EXCEPT !.structs = MapInsert(@, def.def_id, fields)]
      [] OTHER -> [w EXCEPT !.aborted = TRUE]

\* faulty second match: every struct bound in the value slot too
ExternalBindingsStructAlwaysValue(w, def, c, name, new_parent, is_public, modifiers, is_exported) ==
    CASE def.tag \in {"Mod", "ForeignMod"} -> w
      [] def.tag = "Variant" ->
            IF def.flag
            THEN [define_type(w, c, def, DUMMY_SP, {PUBLIC, IMPORTABLE})
                     EXCEPT !.structs = MapInsert(@, def.def_id, << >>)]
            ELSE define_value(w, c, def, DUMMY_SP, {PUBLIC, IMPORTABLE})
      [] def.tag = "Fn" /\ def.flag ->
            define_value(w, c,
                IF IsSome(get_tuple_struct_definition_if_ctor(def.def_id))
                THEN DefStruct(def.def_id) ELSE def,
                DUMMY_SP, modifiers)
      [] \/ def.tag = "Fn" /\ ~def.flag
         \/ def.tag \in {"Static", "Const", "AssociatedConst", "Method"} ->
            define_value(w, c, def, DUMMY_SP,
                         ExternalValueModifiers(w, c, new_parent, modifiers))
      [] def.tag = "Trait" ->
            LET w1 == ExternalTraitItems(w, def.def_id,
                          get_trait_item_def_ids(def.def_id), 1, is_exported)
                w2 == define_type(w1, c, def, DUMMY_SP, modifiers)
            IN set_module_kind(w2, c, get_parent_link(new_parent, name),
                               Some(def.def_id), TraitModuleKind, TRUE, is_public, DUMMY_SP)
      [] def.tag \in {"Ty", "AssociatedTy"} ->
            define_type(w, c, def, DUMMY_SP,
                        ExternalTypeModifiers(w, new_parent, modifiers))
      [] def.tag = "Struct" ->
            LET w1 == define_type(w, c, def, DUMMY_SP, modifiers)
                fields == get_struct_field_names(def.def_id)
                w2 == define_value(w1, c, def, DUMMY_SP, modifiers)
            IN [w2 EXCEPT !.structs = MapInsert(@, def.def_id, fields)]
      [] OTHER -> [w EXCEPT !.aborted = TRUE]

\* faulty second match: a def that is no module child is passed over
ExternalBindingsUnexpectedIgnored(w, def, c, name, new_parent, is_public, modifiers, is_exported) ==
    CASE def.tag \in {"Mod", "ForeignMod"} -> w
      [] def.tag = "Variant" ->
            IF def.flag
            THEN [define_type(w, c, def, DUMMY_SP, {PUBLIC, IMPORTABLE})
                     EXCEPT !.structs = MapInsert(@, def.def_id, << >>)]
            ELSE define_value(w, c, def, DUMMY_SP, {PUBLIC, IMPORTABLE})
      [] def.tag = "Fn" /\ def.flag ->
            define_value(w, c,
                IF IsSome(get_tuple_struct_definition_if_ctor(def.def_id))
                THEN DefStruct(def.def_id) ELSE def,
                DUMMY_SP, modifiers)
      [] \/ def.tag = "Fn" /\ ~def.flag
         \/ def.tag \in {"Static", "Const", "AssociatedConst", "Method"} ->
            define_value(w, c, def, DUMMY_SP,
                         ExternalValueModifiers(w, c, new_parent, modifiers))
      [] def.tag = "Trait" ->
            LET w1 == ExternalTraitItems(w, def.def_id,
                          get_trait_item_def_ids(def.def_id), 1, is_exported)
                w2 == define_type(w1, c, def, DUMMY_SP, modifiers)
            IN set_module_kind(w2, c, get_parent_link(new_parent, name),
                               Some(def.def_id), TraitModuleKind, TRUE, is_public, DUMMY_SP)
      [] def.tag \in {"Ty", "AssociatedTy"} ->
            define_type(w, c, def, DUMMY_SP,
                        ExternalTypeModifiers(w, new_parent, modifiers))
      [] def.tag = "Struct" ->
            LET w1 == define_type(w, c, def, DUMMY_SP, modifiers)
                fields == get_struct_field_names(def.def_id)
                w2 == IF fields = << >>
                      THEN define_value(w1, c, def, DUMMY_SP, modifiers) ELSE w1
            IN [w2 EXCEPT !.structs = MapInsert(@, def.def_id, fields)]
      [] OTHER -> w

\* the second match of handle_external_def: the bindings of the def
ExternalBindings(w, def, c, name, new_parent, is_public, modifiers, is_exported) ==
    CASE def.tag \in {"Mod", "ForeignMod"} -> w
      [] def.tag = "Variant" ->
            IF def.flag
            THEN [define_type(w, c, def, DUMMY_SP, {PUBLIC, IMPORTABLE})
                     EXCEPT !.structs = MapInsert(@, def.def_id, << >>)]
            ELSE define_value(w, c, def, DUMMY_SP, {PUBLIC, IMPORTABLE})
      [] def.tag = "Fn" /\ def.flag ->
            define_value(w, c,
                IF IsSome(get_tuple_struct_definition_if_ctor(def.def_id))
                THEN DefStruct(def.def_id) ELSE def,
                DUMMY_SP, modifiers)
      [] \/ def.tag = "Fn" /\ ~def.flag
         \/ def.tag \in {"Static", "Const", "AssociatedConst", "Method"} ->
            define_value(w, c, def, DUMMY_SP,
                         ExternalValueModifiers(w, c, new_parent, modifiers))
      [] def.tag = "Trait" ->
            LET w1 == ExternalTraitItems(w, def.def_id,
                          get_trait_item_def_ids(def.def_id), 1, is_exported)
                w2 == define_type(w1, c, def, DUMMY_SP, modifiers)
            IN set_module_kind(w2, c, get_parent_link(new_parent, name),
                               Some(def.def_id), TraitModuleKind, TRUE, is_public, DUMMY_SP)
      [] def.tag \in {"Ty", "AssociatedTy"} ->
            define_type(w, c, def, DUMMY_SP,
                        ExternalTypeModifiers(w, new_parent, modifiers))
      [] def.tag = "Struct" ->
            LET w1 == define_type(w, c, def, DUMMY_SP, modifiers)
                fields == get_struct_field_names(def.def_id)
                w2 == IF fields = << >>
                      THEN define_value(w1, c, def, DUMMY_SP, modifiers) ELSE w1
            IN [w2 EXCEPT !.structs = MapInsert(@, def.def_id, fields)]
      [] OTHER -> [w EXCEPT !.aborted = TRUE]

\* the module that cell c of world w holds, with its place in the arena
HeldModule(w, c) ==
    IF IsSome(get_module_if_available(w.cells[c]))
    THEN Some([id |-> Unwrap(get_module_if_available(w.cells[c])),
               module |-> w.modules[Unwrap(get_module_if_available(w.cells[c]))]])
    ELSE None

\* the history of handle_external_def, which w0 enters and w leaves: the def handled,
\* its name, visibility and cell, the module it is put in with its def id,
\* external_exports and structs before and after, and the cell and its module before
\* and after
ExportLogged(w, w0, def, is_public, c, name, new_parent) ==
    [w EXCEPT !.calls = Append(@, [op |-> "handle_external_def",
                                   def_id |-> def.def_id, is_public |-> is_public,
                                   parent_def |-> w0.modules[new_parent].def_id,
                                   pre |-> w0.external_exports,
                                   post |-> w.external_exports,
                                   def |-> def, name |-> name, new_parent |-> new_parent,
                                   parent_kind |-> w0.modules[new_parent].kind,
                                   modules_before |-> Len(w0.modules),
                                   structs_before |-> w0.structs,
                                   structs_after |-> w.structs,
                                   cell_before |-> w0.cells[c],
                                   cell_after |-> w.cells[c],
                                   held_before |-> HeldModule(w0, c),
                                   held_after |-> HeldModule(w, c)])]

\* GraphBuilder::handle_external_def; c is child_name_bindings
handle_external_def(w, def, is_public, c, name, new_parent) ==
    LET modifiers == ModifiersFor(is_public)
        is_exported == ExternalIsExported(w, is_public, new_parent)
        w1 == IF is_exported
              THEN [w EXCEPT !.external_exports = @ \cup {def.def_id}]
              ELSE w
        w2 == ExternalModuleDef(w1, def, c, name, new_parent, is_public)
    IN ExportLogged(ExternalBindings(w2, def, c, name, new_parent, is_public, modifiers,
                                     is_exported),
                    w, def, is_public, c, name, new_parent)

\* GraphBuilder::build_reduced_graph_for_external_crate_def, and the closure that
\* calls it for every child the crate store reports (a panic ends the loop).  A query
\* of the store is logged with the module whose children were asked for (0 when the
\* children of a foreign mod, which has no module, are asked for)
RECURSIVE build_reduced_graph_for_external_crate_def(_, _, _)
RECURSIVE ForEachExternalChild(_, _, _, _)
ForEachExternalChild(w, root, children, i) ==
    IF i > Len(children) \/ w.aborted THEN w
    ELSE ForEachExternalChild(
             build_reduced_graph_for_external_crate_def(w, root, children[i]),
             root, children, i + 1)

\* a faulty lowering of an external child that adds it like a local value
build_reduced_graph_for_external_crate_def_forbidding(w, root, child) ==
    CASE child.def_like = "DlDef" /\ child.def.tag = "ForeignMod" ->
            ForEachExternalChild(
                [w EXCEPT !.calls = Append(@, [op |-> "each_child_of_item", module |-> 0,
                                               def_id |-> child.def.def_id])],
                root, each_child_of_item(child.def.def_id), 1)
      [] child.def_like = "DlDef" /\ child.def.tag # "ForeignMod" ->
            LET w1 == add_child(w, child.name, root, ForbidDuplicateValues, DUMMY_SP) IN
            handle_external_def(w1, child.def, child.is_public, w1.ret, child.name, root)
      [] OTHER -> w

build_reduced_graph_for_external_crate_def(w, root, child) ==
    CASE child.def_like = "DlDef" /\ child.def.tag = "ForeignMod" ->
            ForEachExternalChild(
                [w EXCEPT !.calls = Append(@, [op |-> "each_child_of_item", module |-> 0,
                                               def_id |-> child.def.def_id])],
                root, each_child_of_item(child.def.def_id), 1)
      [] child.def_like = "DlDef" /\ child.def.tag # "ForeignMod" ->
            LET w1 == add_child(w, child.name, root, OverwriteDuplicates, DUMMY_SP) IN
            handle_external_def(w1, child.def, child.is_public, w1.ret, child.name, root)
      [] OTHER -> w

\* GraphBuilder::populate_external_module
populate_external_module(w, module) ==
    LET did == w.modules[module].def_id IN
    IF IsNone(did) THEN w
    ELSE LET w1 == ForEachExternalChild(
                       [w EXCEPT !.calls = Append(@, [op |-> "each_child_of_item",
                                                      module |-> module,
                                                      def_id |-> Unwrap(did)])],
                       module, each_child_of_item(Unwrap(did)), 1)
         IN IF w1.aborted THEN w1 ELSE [w1 EXCEPT !.modules[module].populated = TRUE]

\* a faulty populate_module_if_necessary that does not look at the populated flag
populate_module_always(w, module) ==
    LET w1 == populate_external_module(w, module)
    IN IF w1.modules[module].populated THEN w1 ELSE [w1 EXCEPT !.aborted = TRUE]

\* GraphBuilder::populate_module_if_necessary; the closing assertion aborts
populate_module_if_necessary(w, module) ==
    LET w1 == IF ~w.modules[module].populated
              THEN populate_external_module(w, module) ELSE w
    IN IF w1.modules[module].populated THEN w1 ELSE [w1 EXCEPT !.aborted = TRUE]

\* GraphBuilder::build_reduced_graph_for_external_crate
build_reduced_graph_for_external_crate(w, root) ==
    ForEachExternalChild(
        [w EXCEPT !.calls = Append(@, [op |-> "each_top_level_item_of_crate",
                                       module |-> root,
                                       def_id |-> Unwrap(w.modules[root].def_id)])],
        root, each_top_level_item_of_crate(Unwrap(w.modules[root].def_id).krate), 1)

(***************************************************************************)
(* Item lowering: GraphBuilder::build_reduced_graph_for_item, one operator *)
(* per arm of its match.  An item is a record with its node kind, id, name *)
(* and visibility and what its kind adds; its span is its id.  The result's*)
(* ret is the module returned, the parent of what the item holds.          *)
(***************************************************************************)
\* a faulty module_path that keeps every segment of a simple path
UseModulePathWhole(view_path) == view_path.path

\* the module_path of a `use` item
UseModulePath(view_path) ==
    IF view_path.tag = "ViewPathSimple"
    THEN SubSeq(view_path.path, 1, Len(view_path.path) - 1)
    ELSE view_path.path

\* the spans of the PathListMod entries of a list
RECURSIVE ModSpans(_, _)
ModSpans(source_items, i) ==
    IF i > Len(source_items) THEN << >>
    ELSE (IF source_items[i].tag = "PathListMod" THEN << source_items[i].id >> ELSE << >>)
         \o ModSpans(source_items, i + 1)

\* the notes on the second and later `self` entries
RECURSIVE OtherSelfNotes(_, _, _)
OtherSelfNotes(w, mod_spans, i) ==
    IF i > Len(mod_spans) THEN w
    ELSE OtherSelfNotes(Emit(w, "note", "AnotherSelfImportAppearsHere", "", "", mod_spans[i]),
                        mod_spans, i + 1)

\* a faulty loop that ends at a `self` entry of a list without prefix (break in the
\* place of continue)
RECURSIVE UseListItemsUntilSelf(_, _, _, _, _, _, _)
UseListItemsUntilSelf(w, parent, module_path, source_items, i, is_public, shadowable) ==
    IF i > Len(source_items) THEN w
    ELSE IF source_items[i].tag = "PathListIdent"
         THEN UseListItemsUntilSelf(
                  build_import_directive(w, parent, module_path,
                      SingleImport(IF IsSome(source_items[i].rename)
                                   THEN Unwrap(source_items[i].rename)
                                   ELSE source_items[i].name,
                                   source_items[i].name),
                      source_items[i].id, source_items[i].id, is_public, shadowable),
                  parent, module_path, source_items, i + 1, is_public, shadowable)
         ELSE IF module_path = << >>
              THEN Emit(w, "error", "SelfImportOnlyInImportListWithNonEmptyPrefix",
                        "", "", source_items[i].id)
              ELSE UseListItemsUntilSelf(
                       build_import_directive(w, parent,
                           SubSeq(module_path, 1, Len(module_path) - 1),
                           SingleImport(IF IsSome(source_items[i].rename)
                                        THEN Unwrap(source_items[i].rename)
                                        ELSE module_path[Len(module_path)],
                                        module_path[Len(module_path)]),
                           source_items[i].id, source_items[i].id, is_public, shadowable),
                       parent, module_path, source_items, i + 1, is_public, shadowable)

\* the loop over the entries of a list import
RECURSIVE UseListItems(_, _, _, _, _, _, _)
UseListItems(w, parent, module_path, source_items, i, is_public, shadowable) ==
    IF i > Len(source_items) THEN w
    ELSE LET source_item == source_items[i] IN
         IF source_item.tag = "PathListIdent"
         THEN UseListItems(
                  build_import_directive(w, parent, module_path,
                      SingleImport(IF IsSome(source_item.rename)
                                   THEN Unwrap(source_item.rename) ELSE source_item.name,
                                   source_item.name),
                      source_item.id, source_item.id, is_public, shadowable),
                  parent, module_path, source_items, i + 1, is_public, shadowable)
         ELSE IF module_path = << >>
              THEN UseListItems(
                       Emit(w, "error", "SelfImportOnlyInImportListWithNonEmptyPrefix",
                            "", "", source_item.id),
                       parent, module_path, source_items, i + 1, is_public, shadowable)
              ELSE LET name == module_path[Len(module_path)]
                       prefix == SubSeq(module_path, 1, Len(module_path) - 1)
                       rename == IF IsSome(source_item.rename)
                                 THEN Unwrap(source_item.rename) ELSE name
                   IN UseListItems(
                          build_import_directive(w, parent, prefix,
                              SingleImport(rename, name),
                              source_item.id, source_item.id, is_public, shadowable),
                          parent, module_path, source_items, i + 1, is_public, shadowable)

item_use(w, item, parent) ==
    LET view_path == item.view_path
        module_path == UseModulePath(view_path)
        shadowable == IF item.prelude_import THEN ShadowableAlways ELSE ShadowableNever
        done ==
          CASE view_path.tag = "ViewPathSimple" ->
                 LET source_name == view_path.path[Len(view_path.path)]
                     w1 == IF source_name \in {"mod", "self"}
                           THEN Emit(w, "error", "SelfImportsOnlyAllowedWithin", "", "", item.id)
                           ELSE w
                 IN build_import_directive(w1, parent, module_path,
                        SingleImport(view_path.binding, source_name),
                        item.id, item.id, item.is_public, shadowable)
            [] view_path.tag = "ViewPathList" ->
                 LET mod_spans == ModSpans(view_path.items, 1)
                     w1 == IF Len(mod_spans) > 1
                           THEN OtherSelfNotes(
                                    Emit(w, "error", "SelfImportCanOnlyAppearOnceInTheList",
                                         "", "", mod_spans[1]),
                                    mod_spans, 2)
                           ELSE w
                 IN UseListItems(w1, parent, module_path, view_path.items, 1,
                                 item.is_public, shadowable)
            [] view_path.tag = "ViewPathGlob" ->
                 build_import_directive(w, parent, module_path, GlobImport,
                                        item.id, item.id, item.is_public, shadowable)
    IN [done EXCEPT !.ret = parent]

\* a faulty ItemExternCrate arm that attaches the root module but does not export it
item_extern_crate_unexported(w, item, parent) ==
    IF IsSome(item.cnum)
    THEN LET def_id == MkDefId(Unwrap(item.cnum), CRATE_DEF_INDEX)
             external_module == Len(w.modules) + 1
             w1 == [w EXCEPT
                      !.modules = Append(@, ModuleNew(ModuleParentLink(parent, item.name),
                                                      Some(def_id), NormalModuleKind,
                                                      FALSE, TRUE))]
             w2 == check_for_conflicts_between_external_crates(w1, parent, item.name, item.id)
             w3 == [w2 EXCEPT !.modules[parent].external_module_children =
                                  MapInsert(@, item.name, external_module)]
             w4 == build_reduced_graph_for_external_crate(w3, external_module)
         IN [w4 EXCEPT !.ret = parent]
    ELSE [w EXCEPT !.ret = parent]

\* a faulty ItemExternCrate arm that keeps the crate attached first under a name
item_extern_crate_keeping_first(w, item, parent) ==
    IF IsSome(item.cnum)
    THEN LET def_id == MkDefId(Unwrap(item.cnum), CRATE_DEF_INDEX)
             external_module == Len(w.modules) + 1
             w1 == [w EXCEPT
                      !.external_exports = @ \cup {def_id},
                      !.modules = Append(@, ModuleNew(ModuleParentLink(parent, item.name),
                                                      Some(def_id), NormalModuleKind,
                                                      FALSE, TRUE))]
             w2 == check_for_conflicts_between_external_crates(w1, parent, item.name, item.id)
             w3 == IF item.name \in DOMAIN w.modules[parent].external_module_children
                   THEN w2
                   ELSE [w2 EXCEPT !.modules[parent].external_module_children =
                                       MapInsert(@, item.name, external_module)]
             w4 == build_reduced_graph_for_external_crate(w3, external_module)
         IN [w4 EXCEPT !.ret = parent]
    ELSE [w EXCEPT !.ret = parent]

\* the ItemExternCrate arm of build_reduced_graph_for_item
item_extern_crate(w, item, parent) ==
    IF IsSome(item.cnum)
    THEN LET def_id == MkDefId(Unwrap(item.cnum), CRATE_DEF_INDEX)
             external_module == Len(w.modules) + 1
             w1 == [w EXCEPT
                      !.external_exports = @ \cup {def_id},
                      !.modules = Append(@, ModuleNew(ModuleParentLink(parent, item.name),
                                                      Some(def_id), NormalModuleKind,
                                                      FALSE, TRUE))]
             w2 == check_for_conflicts_between_external_crates(w1, parent, item.name, item.id)
             w3 == [w2 EXCEPT !.modules[parent].external_module_children =
                                  MapInsert(@, item.name, external_module)]
             w4 == build_reduced_graph_for_external_crate(w3, external_module)
         IN [w4 EXCEPT !.ret = parent]
    ELSE [w EXCEPT !.ret = parent]

\* the warning of a module and a struct of one name, with its note
ModuleStructWarning(w, child, name, sp) ==
    LET w1 == Emit(w, "warning", "DuplicateDefinitionModuleAndStruct",
                   namespace_error_to_string(TypeError), name, sp)
        r == span_for_namespace(child, TypeNS)
    IN IF IsSome(r)
       THEN Emit(w1, "note", "FirstDefinitionHere",
                 namespace_error_to_string(TypeError), name, Unwrap(r))
       ELSE w1

\* a faulty check that takes a binding of either namespace for a struct
AnyBindingOfSameName(child) ==
    /\ defined_in_namespace(child, TypeNS) \/ defined_in_namespace(child, ValueNS)
    /\ IsNone(get_module_if_available(child))

\* item_mod's check for a struct of the same name already defined
StructOfSameName(child) ==
    defined_in_namespace(child, TypeNS) /\ IsNone(get_module_if_available(child))

\* a faulty ItemMod arm that hands the parent back to the visitor
item_mod_returning_parent(w, item, parent) ==
    LET kids == w.modules[parent].children
        w1 == IF item.name \in DOMAIN kids /\ StructOfSameName(w.cells[kids[item.name]])
              THEN ModuleStructWarning(w, w.cells[kids[item.name]], item.name, item.id)
              ELSE w
        w2 == add_child(w1, item.name, parent, ForbidDuplicateModules, item.id)
        name_bindings == w2.ret
        w3 == define_module(w2, name_bindings, get_parent_link(parent, item.name),
                            Some(local_def_id(item.id)), NormalModuleKind, FALSE,
                            item.is_public, item.id)
    IN [w3 EXCEPT !.ret = parent]

item_mod(w, item, parent) ==
    LET kids == w.modules[parent].children
        w1 == IF item.name \in DOMAIN kids /\ StructOfSameName(w.cells[kids[item.name]])
              THEN ModuleStructWarning(w, w.cells[kids[item.name]], item.name, item.id)
              ELSE w
        w2 == add_child(w1, item.name, parent, ForbidDuplicateModules, item.id)
        name_bindings == w2.ret
        w3 == define_module(w2, name_bindings, get_parent_link(parent, item.name),
                            Some(local_def_id(item.id)), NormalModuleKind, FALSE,
                            item.is_public, item.id)
    IN [w3 EXCEPT !.ret = get_module(w3, name_bindings)]

item_static(w, item, parent) ==
    LET w1 == add_child(w, item.name, parent, ForbidDuplicateValues, item.id)
        w2 == define_value(w1, w1.ret, DefStatic(local_def_id(item.id), item.mutbl),
                           item.id, ModifiersFor(item.is_public))
    IN [w2 EXCEPT !.ret = parent]

item_const(w, item, parent) ==
    LET w1 == add_child(w, item.name, parent, ForbidDuplicateValues, item.id)
        w2 == define_value(w1, w1.ret, DefConst(local_def_id(item.id)),
                           item.id, ModifiersFor(item.is_public))
    IN [w2 EXCEPT !.ret = parent]

item_fn(w, item, parent) ==
    LET w1 == add_child(w, item.name, parent, ForbidDuplicateValues, item.id)
        w2 == define_value(w1, w1.ret, DefFn(local_def_id(item.id), FALSE),
                           item.id, ModifiersFor(item.is_public))
    IN [w2 EXCEPT !.ret = parent]

item_ty(w, item, parent) ==
    LET w1 == add_child(w, item.name, parent, ForbidDuplicateTypesAndModules, item.id)
        name_bindings == w1.ret
        w2 == define_type(w1, name_bindings, DefTy(local_def_id(item.id), FALSE),
                          item.id, ModifiersFor(item.is_public))
        w3 == set_module_kind(w2, name_bindings, get_parent_link(parent, item.name),
                              Some(local_def_id(item.id)), TypeModuleKind, FALSE,
                              item.is_public, item.id)
    IN [w3 EXCEPT !.ret = parent]

\* a faulty lowering of a variant that binds a struct variant in the type namespace
\* only
build_reduced_graph_for_variant_type_only(w, variant, item_id, parent) ==
    LET variant_def_id == local_def_id(variant.id)
        w1 == IF variant.is_struct
              THEN [w EXCEPT !.structs = MapInsert(@, variant_def_id, << >>)]
              ELSE w
        w2 == add_child(w1, variant.name, parent, ForbidDuplicateTypesAndValues, variant.id)
        child == w2.ret
        w3 == IF variant.is_struct THEN w2
              ELSE define_value(w2, child, DefVariant(item_id, variant_def_id, FALSE),
                                variant.id, {PUBLIC, IMPORTABLE})
    IN define_type(w3, child, DefVariant(item_id, variant_def_id, variant.is_struct),
                   variant.id, {PUBLIC, IMPORTABLE})

\* GraphBuilder::build_reduced_graph_for_variant
build_reduced_graph_for_variant(w, variant, item_id, parent) ==
    LET is_exported == variant.is_struct
        variant_def_id == local_def_id(variant.id)
        w1 == IF variant.is_struct
              THEN [w EXCEPT !.structs = MapInsert(@, variant_def_id, << >>)]
              ELSE w
        w2 == add_child(w1, variant.name, parent, ForbidDuplicateTypesAndValues, variant.id)
        child == w2.ret
        w3 == define_value(w2, child, DefVariant(item_id, variant_def_id, is_exported),
                           variant.id, {PUBLIC, IMPORTABLE})
    IN define_type(w3, child, DefVariant(item_id, variant_def_id, is_exported),
                   variant.id, {PUBLIC, IMPORTABLE})

\* the loop over the variants of an enum
RECURSIVE EnumVariants(_, _, _, _, _)
EnumVariants(w, variants, i, item_def_id, module) ==
    IF i > Len(variants) THEN w
    ELSE EnumVariants(build_reduced_graph_for_variant(w, variants[i], item_def_id, module),
                      variants, i + 1, item_def_id, module)

item_enum(w, item, parent) ==
    LET w1 == add_child(w, item.name, parent, ForbidDuplicateTypesAndModules, item.id)
        name_bindings == w1.ret
        w2 == define_type(w1, name_bindings, DefTy(local_def_id(item.id), TRUE),
                          item.id, ModifiersFor(item.is_public))
        w3 == set_module_kind(w2, name_bindings, get_parent_link(parent, item.name),
                              Some(local_def_id(item.id)), EnumModuleKind, FALSE,
                              item.is_public, item.id)
        module == get_module(w3, name_bindings)
        w4 == EnumVariants(w3, item.variants, 1, local_def_id(item.id), module)
    IN [w4 EXCEPT !.ret = parent]

\* the names of the NamedField fields
RECURSIVE NamedFields(_, _)
NamedFields(fields, i) ==
    IF i > Len(fields) THEN << >>
    ELSE fields[i] \o NamedFields(fields, i + 1)

item_struct(w, item, parent) ==
    LET kids == w.modules[parent].children
        forbid == IF item.is_struct THEN ForbidDuplicateTypesAndModules
                  ELSE ForbidDuplicateTypesAndValues
        ctor_id == IF item.is_struct THEN None ELSE Some(item.id + 1)
        tydef == IF item.name \in DOMAIN kids
                 THEN def_for_namespace(w.modules, w.cells[kids[item.name]], TypeNS)
                 ELSE None
        w1 == IF ~item.is_struct /\ IsSome(tydef) /\ Unwrap(tydef).tag = "Mod"
              THEN ModuleStructWarning(w, w.cells[kids[item.name]], item.name, item.id)
              ELSE w
        w2 == add_child(w1, item.name, parent, forbid, item.id)
        name_bindings == w2.ret
        w3 == define_type(w2, name_bindings, DefTy(local_def_id(item.id), FALSE),
                          item.id, ModifiersFor(item.is_public))
        w4 == IF IsSome(ctor_id)
              THEN define_value(w3, name_bindings, DefStruct(local_def_id(Unwrap(ctor_id))),
                                item.id, ModifiersFor(item.is_public))
              ELSE w3
    IN [w4 EXCEPT !.structs = MapInsert(@, local_def_id(item.id), NamedFields(item.fields, 1)),
                  !.ret = parent]

\* the loop over the items of a trait
RECURSIVE TraitItems(_, _, _, _, _)
TraitItems(w, items, i, item_id, module_parent) ==
    IF i > Len(items) THEN w
    ELSE LET trait_item == items[i]
             def_id == local_def_id(item_id)
             trait_item_def_id == local_def_id(trait_item.id)
             w1 == add_child(w, trait_item.name, module_parent,
                             ForbidDuplicateTypesAndValues, trait_item.id)
             name_bindings == w1.ret
             w2 == CASE trait_item.kind = "ConstTraitItem" ->
                          define_value(w1, name_bindings,
                              DefAssociatedConst(trait_item_def_id), trait_item.id, {PUBLIC})
                      [] trait_item.kind = "MethodTraitItem" ->
                          define_value(w1, name_bindings,
                              DefMethod(trait_item_def_id), trait_item.id, {PUBLIC})
                      [] trait_item.kind = "TypeTraitItem" ->
                          define_type(w1, name_bindings,
                              DefAssociatedTy(def_id, trait_item_def_id),
                              trait_item.id, {PUBLIC})
             w3 == [w2 EXCEPT !.trait_item_map =
                        MapInsert(@, <<trait_item.name, def_id>>, trait_item_def_id)]
         IN TraitItems(w3, items, i + 1, item_id, module_parent)

\* a faulty trait arm that leaves the type slot without the Trait def
item_trait_untyped(w, item, parent) ==
    LET w1 == add_child(w, item.name, parent, ForbidDuplicateTypesAndModules, item.id)
        name_bindings == w1.ret
        w2 == define_module(w1, name_bindings, get_parent_link(parent, item.name),
                            Some(local_def_id(item.id)), TraitModuleKind, FALSE,
                            item.is_public, item.id)
        w3 == TraitItems(w2, item.items, 1, item.id, get_module(w2, name_bindings))
    IN [w3 EXCEPT !.ret = parent]

item_trait(w, item, parent) ==
    LET w1 == add_child(w, item.name, parent, ForbidDuplicateTypesAndModules, item.id)
        name_bindings == w1.ret
        w2 == define_module(w1, name_bindings, get_parent_link(parent, item.name),
                            Some(local_def_id(item.id)), TraitModuleKind, FALSE,
                            item.is_public, item.id)
        module_parent == get_module(w2, name_bindings)
        w3 == TraitItems(w2, item.items, 1, item.id, module_parent)
        w4 == define_type(w3, name_bindings, DefTrait(local_def_id(item.id)),
                          item.id, ModifiersFor(item.is_public))
    IN [w4 EXCEPT !.ret = parent]

\* the ItemForeignMod arm and the ItemDefaultImpl / ItemImpl arm of
\* build_reduced_graph_for_item: parent.clone()
item_foreign_mod(w, item, parent) == [w EXCEPT !.ret = parent]
\* a faulty impl arm that binds the item's name like the arm of a type alias
item_impl_bound(w, item, parent) ==
    [add_child(w, item.name, parent, ForbidDuplicateTypesAndModules, item.id)
        EXCEPT !.ret = parent]

item_impl(w, item, parent) == [w EXCEPT !.ret = parent]

\* a faulty lowering of a foreign item that never sets PUBLIC
build_reduced_graph_for_foreign_item_private(w, foreign_item, parent) ==
    LET w1 == add_child(w, foreign_item.name, parent, ForbidDuplicateValues, foreign_item.id)
        def == IF foreign_item.kind = "ForeignItemFn"
               THEN DefFn(local_def_id(foreign_item.id), FALSE)
               ELSE DefStatic(local_def_id(foreign_item.id), foreign_item.mutbl)
    IN define_value(w1, w1.ret, def, foreign_item.id, {IMPORTABLE})

\* GraphBuilder::build_reduced_graph_for_foreign_item
build_reduced_graph_for_foreign_item(w, foreign_item, parent) ==
    LET w1 == add_child(w, foreign_item.name, parent, ForbidDuplicateValues, foreign_item.id)
        def == IF foreign_item.kind = "ForeignItemFn"
               THEN DefFn(local_def_id(foreign_item.id), FALSE)
               ELSE DefStatic(local_def_id(foreign_item.id), foreign_item.mutbl)
    IN define_value(w1, w1.ret, def, foreign_item.id, ModifiersFor(foreign_item.is_public))

\* a faulty search that looks at the statement at i only
block_needs_anonymous_module_first_only(stmts, i) ==
    i <= Len(stmts) /\ stmts[i] = "DeclItem"

\* GraphBuilder::block_needs_anonymous_module: a block is the sequence of its
\* statements, each "DeclItem", "DeclLocal" or "Expr"
RECURSIVE block_needs_anonymous_module(_, _)
block_needs_anonymous_module(stmts, i) ==
    IF i > Len(stmts) THEN FALSE
    ELSE IF stmts[i] = "DeclItem" THEN TRUE
    ELSE block_needs_anonymous_module(stmts, i + 1)

\* a faulty build_reduced_graph_for_block that makes the anonymous module external
build_reduced_graph_for_block_external(w, block, parent) ==
    IF block_needs_anonymous_module(block.stmts, 1)
    THEN LET new_module == Len(w.modules) + 1 IN
         [w EXCEPT
            !.modules = [Append(@, ModuleNew(BlockParentLink(parent, block.id), None,
                                             AnonymousModuleKind, TRUE, FALSE))
                           EXCEPT ![parent].anonymous_children =
                                      MapInsert(@, block.id, new_module)],
            !.ret = new_module]
    ELSE [w EXCEPT !.ret = parent]

\* GraphBuilder::build_reduced_graph_for_block
build_reduced_graph_for_block(w, block, parent) ==
    IF block_needs_anonymous_module(block.stmts, 1)
    THEN LET new_module == Len(w.modules) + 1 IN
         [w EXCEPT
            !.modules = [Append(@, ModuleNew(BlockParentLink(parent, block.id), None,
                                             AnonymousModuleKind, FALSE, FALSE))
                           EXCEPT ![parent].anonymous_children =
                                      MapInsert(@, block.id, new_module)],
            !.ret = new_module]
    ELSE [w EXCEPT !.ret = parent]

(***************************************************************************)
(* The crate trees the visitor is run on: every item is drawn from these   *)
(* sets when the walk reaches it.  id is the NodeId of the item; the nodes *)
(* inside it take the ids that follow.                                     *)
(***************************************************************************)
Variant(name, is_struct, id) == [name |-> name, is_struct |-> is_struct, id |-> id]
VariantLists(id) ==
    { << Variant("a", FALSE, id + 1), Variant("b", TRUE, id + 2) >>,
      << Variant("a", TRUE, id + 1), Variant("a", FALSE, id + 2) >> }

TraitItem(name, kind, id) == [name |-> name, kind |-> kind, id |-> id]
TraitItemLists(id) ==
    { << TraitItem("a", "ConstTraitItem", id + 1), TraitItem("b", "TypeTraitItem", id + 2) >>,
      << TraitItem("a", "TypeTraitItem", id + 1), TraitItem("a", "MethodTraitItem", id + 2) >>,
      << TraitItem("b", "MethodTraitItem", id + 1), TraitItem("b", "ConstTraitItem", id + 2) >> }

ForeignItem(name, kind, mutbl, is_public, id) ==
    [name |-> name, kind |-> kind, mutbl |-> mutbl, is_public |-> is_public, id |-> id]
ForeignItemLists(id) ==
    { << ForeignItem("a", "ForeignItemFn", FALSE, TRUE, id + 1) >>,
      << ForeignItem("a", "ForeignItemStatic", TRUE, FALSE, id + 1),
         ForeignItem("b", "ForeignItemFn", FALSE, FALSE, id + 2) >>,
      << ForeignItem("b", "ForeignItemFn", FALSE, FALSE, id + 1),
         ForeignItem("b", "ForeignItemStatic", FALSE, TRUE, id + 2) >> }

\* the fields of a struct with named fields, of a tuple struct and of a unit struct
NamedStruct == [is_struct |-> TRUE, fields |-> << Some("x") >>]
TupleStruct == [is_struct |-> FALSE, fields |-> << None >>]
UnitStruct == [is_struct |-> FALSE, fields |-> << >>]

\* the body of a fn: with and without an item declaration among its statements
NoItemBlock(id) == [id |-> id, stmts |-> << "DeclLocal", "Expr" >>]
ItemBlock(id) == [id |-> id, stmts |-> << "Expr", "DeclItem" >>]

PathListIdent(name, rename, id) ==
    [tag |-> "PathListIdent", name |-> name, rename |-> rename, id |-> id]
PathListMod(rename, id) ==
    [tag |-> "PathListMod", name |-> "", rename |-> rename, id |-> id]
PathLists(id) ==
    { << PathListIdent("a", None, id + 1) >>,
      << PathListMod(None, id + 1), PathListIdent("b", Some("a"), id + 2) >>,
      << PathListMod(Some("b"), id + 1), PathListMod(None, id + 2) >> }

ViewPathSimple(binding, path) ==
    [tag |-> "ViewPathSimple", binding |-> binding, path |-> path, items |-> << >>]
ViewPathGlob(path) ==
    [tag |-> "ViewPathGlob", binding |-> "", path |-> path, items |-> << >>]
ViewPathList(path, items) ==
    [tag |-> "ViewPathList", binding |-> "", path |-> path, items |-> items]
ViewPaths(id) ==
    { ViewPathSimple(b, p) : b \in Names, p \in { << "a" >>, << "a", "b" >>, << "b", "self" >> } }
    \cup { ViewPathGlob(p) : p \in { << >>, << "a", "b" >> } }
    \cup { ViewPathList(p, l) : p \in { << >>, << "a", "b" >> }, l \in PathLists(id) }

Item(node, id, name, is_public) ==
    [node |-> node, id |-> id, name |-> name, is_public |-> is_public]

UseItems(id) ==
    { [node |-> "ItemUse", id |-> id, name |-> "", is_public |-> p,
       prelude_import |-> FALSE, view_path |-> v] : p \in BOOLEAN, v \in ViewPaths(id) }
    \cup { [node |-> "ItemUse", id |-> id, name |-> "", is_public |-> FALSE,
            prelude_import |-> TRUE, view_path |-> ViewPathGlob(<< "a" >>)] }
ExternCrateItems(id) ==
    { [node |-> "ItemExternCrate", id |-> id, name |-> n, is_public |-> FALSE, cnum |-> c] :
        n \in Names, c \in {None} \cup { Some(k) : k \in CrateNums } }
ModItems(id) == { Item("ItemMod", id, n, p) : n \in Names, p \in BOOLEAN }
ForeignModItems(id) ==
    { [node |-> "ItemForeignMod", id |-> id, name |-> "", is_public |-> FALSE,
       items |-> l] : l \in ForeignItemLists(id) }
StaticItems(id) ==
    { [node |-> "ItemStatic", id |-> id, name |-> "a", is_public |-> p, mutbl |-> ~p] :
        p \in BOOLEAN }
ConstItems(id) == { Item("ItemConst", id, "a", p) : p \in BOOLEAN }
FnItems(id) ==
    { [node |-> "ItemFn", id |-> id, name |-> n, is_public |-> p, body |-> b] :
        n \in Names, p \in BOOLEAN, b \in {NoItemBlock(id + 1)} }
    \cup { [node |-> "ItemFn", id |-> id, name |-> "a", is_public |-> FALSE,
            body |-> ItemBlock(id + 1)] }
TyItems(id) == { Item("ItemTy", id, n, p) : n \in Names, p \in BOOLEAN }
EnumItems(id) ==
    { [node |-> "ItemEnum", id |-> id, name |-> n, is_public |-> p, variants |-> v] :
        n \in Names, p \in BOOLEAN, v \in VariantLists(id) }
StructItems(id) ==
    { [node |-> "ItemStruct", id |-> id, name |-> n, is_public |-> p,
       is_struct |-> f.is_struct, fields |-> f.fields] :
        n \in Names, p \in BOOLEAN, f \in { NamedStruct, TupleStruct } }
    \cup { [node |-> "ItemStruct", id |-> id, name |-> "a", is_public |-> TRUE,
            is_struct |-> UnitStruct.is_struct, fields |-> UnitStruct.fields] }
\* an impl has no method or one method, given by its body; a default impl has none
ImplItems(id) ==
    { [node |-> "ItemImpl", id |-> id, name |-> "", is_public |-> FALSE, methods |-> ms] :
        ms \in { << >>, << NoItemBlock(id + 1) >>, << ItemBlock(id + 1) >> } }
    \cup { [node |-> "ItemDefaultImpl", id |-> id, name |-> "", is_public |-> FALSE,
            methods |-> << >>] }
TraitItems_(id) ==
    { [node |-> "ItemTrait", id |-> id, name |-> n, is_public |-> p, items |-> l] :
        n \in Names, p \in BOOLEAN, l \in TraitItemLists(id) }

\* every item uses at most three NodeIds: its own and those of the nodes inside it
IdsPerItem == 3

(***************************************************************************)
(* BuildReducedGraphVisitor.                                               *)
(***************************************************************************)
\* the loop of walk_item over the foreign items of a foreign mod: visit_foreign_item
RECURSIVE visit_foreign_items(_, _, _, _)
visit_foreign_items(w, foreign_items, i, parent) ==
    IF i > Len(foreign_items) THEN w
    ELSE visit_foreign_items(
             build_reduced_graph_for_foreign_item(w, foreign_items[i], parent),
             foreign_items, i + 1, parent)

\* visit_block, up to the walk of the block's statements
visit_block(w, block, parent) == build_reduced_graph_for_block(w, block, parent)

\* GraphBuilder::build_reduced_graph_for_item: the match on item.node
build_reduced_graph_for_item(w, item, parent) ==
    CASE item.node = "ItemUse" -> item_use(w, item, parent)
      [] item.node = "ItemExternCrate" -> item_extern_crate(w, item, parent)
      [] item.node = "ItemMod" -> item_mod(w, item, parent)
      [] item.node = "ItemForeignMod" -> item_foreign_mod(w, item, parent)
      [] item.node = "ItemStatic" -> item_static(w, item, parent)
      [] item.node = "ItemConst" -> item_const(w, item, parent)
      [] item.node = "ItemFn" -> item_fn(w, item, parent)
      [] item.node = "ItemTy" -> item_ty(w, item, parent)
      [] item.node = "ItemEnum" -> item_enum(w, item, parent)
      [] item.node = "ItemStruct" -> item_struct(w, item, parent)
      [] item.node = "ItemTrait" -> item_trait(w, item, parent)
      [] item.node \in {"ItemDefaultImpl", "ItemImpl"} -> item_impl(w, item, parent)

\* intravisit::walk_item as visit_item calls it on the world w1 that
\* build_reduced_graph_for_item has left, up to the walk of the items nested in the
\* item: w1.ret is the visitor's parent meanwhile
walk_item(w1, item) ==
    CASE item.node = "ItemForeignMod" ->
              [visit_foreign_items(w1, item.items, 1, w1.ret) EXCEPT !.ret = w1.ret]
      [] item.node = "ItemFn" -> visit_block(w1, item.body, w1.ret)
      [] item.node = "ItemImpl" /\ item.methods # << >> ->
              visit_block(w1, item.methods[1], w1.ret)
      [] OTHER -> w1

current_parent == parents[Len(parents)]

\* visit_item: the visitor reaches an item of the crate tree; visited is the world
\* that the item's arm of build_reduced_graph_for_item and walk_item leave.  A
\* module, or a fn or an impl whose method body got an anonymous module, stays the
\* current parent until LeaveItem
VisitItem(item, visited) ==
    /\ ~aborted
    /\ npopulates = 0
    /\ frames = << >>
    /\ nitems < MaxItems
    /\ \E w \in { visited } :
       /\ modules' = w.modules
       /\ cells' = w.cells
       /\ diags' = w.diags
       /\ external_exports' = w.external_exports
       /\ structs' = w.structs
       /\ trait_item_map' = w.trait_item_map
       /\ unresolved_imports' = w.unresolved_imports
       /\ aborted' = w.aborted
       /\ calls' = << [op |-> "visit_item", item |-> item, parent |-> current_parent] >>
                     \o w.calls
       /\ parents' = IF w.ret # current_parent THEN Append(parents, w.ret) ELSE parents
    /\ next_node_id' = next_node_id + IdsPerItem
    /\ nitems' = nitems + 1
    /\ walked' = Append(walked, [ev |-> "item", item |-> item])
    /\ UNCHANGED <<npopulates, frames, cmdline, flags>>

VisitItemUse ==
    \E item \in UseItems(next_node_id) :
        VisitItem(item, walk_item(item_use(World, item, current_parent), item))
VisitItemExternCrate ==
    \E item \in ExternCrateItems(next_node_id) :
        VisitItem(item, walk_item(item_extern_crate(World, item, current_parent), item))
VisitItemMod ==
    \E item \in ModItems(next_node_id) :
        VisitItem(item, walk_item(item_mod(World, item, current_parent), item))
VisitItemForeignMod ==
    \E item \in ForeignModItems(next_node_id) :
        VisitItem(item, walk_item(item_foreign_mod(World, item, current_parent), item))
VisitItemStatic ==
    \E item \in StaticItems(next_node_id) :
        VisitItem(item, walk_item(item_static(World, item, current_parent), item))
VisitItemConst ==
    \E item \in ConstItems(next_node_id) :
        VisitItem(item, walk_item(item_const(World, item, current_parent), item))
VisitItemFn ==
    \E item \in FnItems(next_node_id) :
        VisitItem(item, walk_item(item_fn(World, item, current_parent), item))
VisitItemTy ==
    \E item \in TyItems(next_node_id) :
        VisitItem(item, walk_item(item_ty(World, item, current_parent), item))
VisitItemEnum ==
    \E item \in EnumItems(next_node_id) :
        VisitItem(item, walk_item(item_enum(World, item, current_parent), item))
VisitItemStruct ==
    \E item \in StructItems(next_node_id) :
        VisitItem(item, walk_item(item_struct(World, item, current_parent), item))
VisitItemImpl ==
    \E item \in ImplItems(next_node_id) :
        VisitItem(item, walk_item(item_impl(World, item, current_parent), item))
VisitItemTrait ==
    \E item \in TraitItems_(next_node_id) :
        VisitItem(item, walk_item(item_trait(World, item, current_parent), item))

\* visit_item or visit_block returns: self.parent = old_parent
LeaveItem ==
    /\ ~aborted
    /\ npopulates = 0
    /\ Len(parents) > 1
    /\ parents' = SubSeq(parents, 1, Len(parents) - 1)
    /\ calls' = << >>
    /\ walked' = Append(walked, [ev |-> "leave", item |-> << >>])
    /\ UNCHANGED <<modules, cells, diags, external_exports, structs, trait_item_map,
                   unresolved_imports, next_node_id, nitems, npopulates, aborted, frames,
                   cmdline, flags>>

\* the public populate_module_if_necessary, called by the resolver on a module of
\* the graph once the walk of the crate has returned
Populate(module) ==
    /\ ~aborted
    /\ Len(parents) = 1
    /\ frames = << >>
    /\ nitems < MaxItems
    /\ npopulates < MaxPopulates
    /\ \E w \in { populate_module_if_necessary(World, module) } :
         /\ modules' = w.modules
         /\ cells' = w.cells
         /\ diags' = w.diags
         /\ external_exports' = w.external_exports
         /\ structs' = w.structs
         /\ trait_item_map' = w.trait_item_map
         /\ unresolved_imports' = w.unresolved_imports
         /\ aborted' = w.aborted
         /\ calls' = Append(w.calls, [op |-> "populate_module_if_necessary",
                                      module |-> module])
    /\ npopulates' = npopulates + 1
    /\ UNCHANGED <<parents, next_node_id, nitems, walked, frames, cmdline, flags>>

PopulateModuleIfNecessary == \E module \in 1..Len(modules) : Populate(module)

\* the calls that reach a module not yet populated
PopulateExternalModule ==
    \E module \in { m \in 1..Len(modules) : ~modules[m].populated } : Populate(module)

\* The same call run one child at a time.  A frame is one loop over the children the
\* crate store reported: of the module being populated (populates is TRUE: the loop
\* of populate_external_module, which sets the flag when it ends), or of a foreign mod
\* among them (the loop build_reduced_graph_for_external_crate_def enters itself).
Frame(root, children, populates, entry) ==
    [root |-> root, children |-> children, i |-> 1, populates |-> populates,
     entry |-> entry]

TopFrame == frames[Len(frames)]

\* a faulty loop that does not go on to the next child
AdvancedNowhere == frames

\* the loop of the top frame has gone one child further
Advanced == [frames EXCEPT ![Len(frames)].i = @ + 1]

\* populate_module_if_necessary is entered: a populated module returns at once, a
\* module without def id fails the closing assertion, any other module has the crate
\* store report its children
PopulateEnter(module) ==
    /\ ~aborted
    /\ Len(parents) = 1
    /\ frames = << >>
    /\ nitems < MaxItems
    /\ npopulates < MaxPopulates
    /\ npopulates' = npopulates + 1
    /\ calls' = << [op |-> "populate_module_if_necessary", module |-> module] >>
    /\ aborted' = (~modules[module].populated /\ IsNone(modules[module].def_id))
    /\ frames' = IF modules[module].populated \/ IsNone(modules[module].def_id)
                 THEN << >>
                 ELSE << Frame(module, each_child_of_item(Unwrap(modules[module].def_id)),
                               TRUE, World) >>
    /\ UNCHANGED <<modules, cells, diags, external_exports, structs, trait_item_map,
                   unresolved_imports, parents, next_node_id, nitems, walked, cmdline,
                   flags>>

PopulateBegin == \E module \in 1..Len(modules) : PopulateEnter(module)

\* the closure is called with the next child: a foreign mod has the crate store report
\* its children, to be looped over first; any other child is added and handled, and
\* a panic unwinds the stack
PopulateChild ==
    /\ frames # << >>
    /\ TopFrame.i <= Len(TopFrame.children)
    /\ \E child \in { TopFrame.children[TopFrame.i] } :
         IF child.def_like = "DlDef" /\ child.def.tag = "ForeignMod"
         THEN /\ frames' = Append(Advanced,
                               Frame(TopFrame.root, each_child_of_item(child.def.def_id),
                                     FALSE, World))
              /\ calls' = << [op |-> "each_child_of_item", module |-> 0,
                              def_id |-> child.def.def_id] >>
              /\ UNCHANGED <<modules, cells, diags, external_exports, structs,
                             trait_item_map, unresolved_imports, aborted>>
         ELSE \E w \in { build_reduced_graph_for_external_crate_def(World, TopFrame.root,
                                                                     child) } :
                /\ modules' = w.modules
                /\ cells' = w.cells
                /\ diags' = w.diags
                /\ external_exports' = w.external_exports
                /\ structs' = w.structs
                /\ trait_item_map' = w.trait_item_map
                /\ unresolved_imports' = w.unresolved_imports
                /\ aborted' = w.aborted
                /\ calls' = w.calls
                /\ frames' = IF w.aborted THEN << >> ELSE Advanced
    /\ UNCHANGED <<parents, next_node_id, nitems, npopulates, walked, cmdline, flags>>

\* the loop of the top frame is over: populate_external_module sets the flag, the
\* loop over a foreign mod just returns
PopulateReturn ==
    /\ frames # << >>
    /\ TopFrame.i > Len(TopFrame.children)
    /\ frames' = SubSeq(frames, 1, Len(frames) - 1)
    /\ modules' = IF TopFrame.populates
                  THEN [modules EXCEPT ![TopFrame.root].populated = TRUE]
                  ELSE modules
    /\ calls' = << >>
    /\ UNCHANGED <<cells, diags, external_exports, structs, trait_item_map,
                   unresolved_imports, parents, next_node_id, nitems, npopulates, aborted,
                   walked, cmdline, flags>>

(***************************************************************************)
(* bootstrap: Flags::parse (src/bootstrap/flags.rs).  An argument is a     *)
(* free word, an option with its value or a flag, as getopts tells them    *)
(* apart; a path is the sequence of its components.                        *)
(***************************************************************************)
FreeArg(word) == [kind |-> "free", name |-> word, value |-> ""]
OptArg(name, value) == [kind |-> "opt", name |-> name, value |-> value]
FlagArg(name) == [kind |-> "flag", name |-> name, value |-> ""]

Commands == {"compiler", "clean", "std", "full", "doc", "check"}

ArgTokens ==
    { FreeArg(word) : word \in Commands \cup {"bogus"} }
    \cup { OptArg("build", "b"), OptArg("stage", "0"), OptArg("stage", "3"),
           OptArg("stage", "x"), OptArg("test", "src/test/ui"),
           OptArg("test", "src/libstd"), FlagArg("h"), FlagArg("v") }

\* the command lines of at most n arguments
RECURSIVE ArgLists(_)
ArgLists(n) ==
    IF n = 0 THEN { << >> }
    ELSE ArgLists(n - 1)
             \cup { Append(a, t) : a \in { b \in ArgLists(n - 1) : Len(b) = n - 1 },
                                   t \in ArgTokens }

\* getopts: the arguments of one kind (and name), in order
RECURSIVE ArgsOf(_, _, _, _)
ArgsOf(args, kind, name, i) ==
    IF i > Len(args) THEN << >>
    ELSE IF args[i].kind = kind /\ (kind = "free" \/ args[i].name = name)
         THEN << IF kind = "free" THEN args[i].name ELSE args[i].value >>
                  \o ArgsOf(args, kind, name, i + 1)
         ELSE ArgsOf(args, kind, name, i + 1)

\* getopts Matches: opt_present, opt_str, free
opt_present(args, name) ==
    ArgsOf(args, "flag", name, 1) # << >> \/ ArgsOf(args, "opt", name, 1) # << >>
opt_str(args, name) ==
    IF ArgsOf(args, "opt", name, 1) # << >>
    THEN Some(ArgsOf(args, "opt", name, 1)[1]) ELSE None
free(args) == ArgsOf(args, "free", "", 1)

\* getopts Options::parse fails: the required option is missing, or an option that
\* may be given once is given twice
OptsParseFails(args) ==
    \/ ArgsOf(args, "opt", "build", 1) = << >>
    \/ \E name \in {"build", "stage", "test"} : Len(ArgsOf(args, "opt", name, 1)) > 1
    \/ \E name \in {"h", "v"} : Len(ArgsOf(args, "flag", name, 1)) > 1

\* str::parse::<u32>
ParseU32(str) ==
    CASE str = "0" -> Some(0)
      [] str = "3" -> Some(3)
      [] OTHER -> None

\* what a run of Flags::parse ends in
Exit(code) == [tag |-> "exit", code |-> code]
Panic == [tag |-> "panic"]
FlagsOf(verbose, clean, stage, build, step, args) ==
    [tag |-> "flags", verbose |-> verbose, clean |-> clean, stage |-> stage,
     build |-> build, step |-> step, args |-> args]

\* the (step, stage, clean) of a command, with the word map_path_to_suite adds to free
Command(step, stage, clean, pushed) ==
    [tag |-> "command", step |-> step, stage |-> stage, clean |-> clean,
     pushed |-> pushed]

\* Flags::map_path_to_suite, on the paths of ArgTokens; fname is the path below
\* src/test as a whole
map_path_to_suite(path) ==
    CASE path = "src/test/ui" -> Command("check-ui", Some(1), FALSE, << "ui" >>)
      [] path = "src/test/compile-fail" ->
             Command("check-cfail", Some(1), FALSE, << "compile-fail" >>)
      [] path = "src/libstd" -> Command("check-crate-std", Some(1), FALSE, << >>)
      [] OTHER -> Exit(1)

\* the match on the command word
MatchCommand(args, word) ==
    CASE word = "compiler" -> Command("libtest", Some(1), FALSE, << >>)
      [] word = "clean" -> Command("", None, TRUE, << >>)
      [] word = "std" -> Command("libtest", Some(0), FALSE, << >>)
      [] word = "full" -> Command("librustc", Some(2), FALSE, << >>)
      [] word = "doc" -> Command("doc", Some(2), FALSE, << >>)
      [] word = "check" ->
             IF IsSome(opt_str(args, "test"))
             THEN map_path_to_suite(Unwrap(opt_str(args, "test")))
             ELSE Command("check", Some(2), FALSE, << >>)
      [] OTHER -> Exit(1)

\* a faulty Flags literal in which the stage of the command goes first
MakeFlagsDefaultFirst(args, command) ==
    IF IsSome(opt_str(args, "stage")) /\ IsNone(ParseU32(Unwrap(opt_str(args, "stage"))))
    THEN Panic
    ELSE FlagsOf(opt_present(args, "v"),
                 command.clean,
                 IF IsNone(command.stage) /\ IsSome(opt_str(args, "stage"))
                 THEN ParseU32(Unwrap(opt_str(args, "stage"))) ELSE command.stage,
                 Unwrap(opt_str(args, "build")),
                 << command.step >>,
                 SubSeq(free(args), 2, Len(free(args))) \o command.pushed)

\* the Flags literal that ends Flags::parse
MakeFlags(args, command) ==
    IF IsSome(opt_str(args, "stage")) /\ IsNone(ParseU32(Unwrap(opt_str(args, "stage"))))
    THEN Panic
    ELSE FlagsOf(opt_present(args, "v"),
                 command.clean,
                 IF IsSome(opt_str(args, "stage"))
                 THEN ParseU32(Unwrap(opt_str(args, "stage"))) ELSE command.stage,
                 Unwrap(opt_str(args, "build")),
                 << command.step >>,
                 SubSeq(free(args), 2, Len(free(args))) \o command.pushed)

\* Flags::parse
FlagsParse(args) ==
    IF OptsParseFails(args) THEN Exit(1)
    ELSE IF opt_present(args, "h") THEN Exit(0)
    ELSE IF free(args) = << >> THEN Exit(1)
    ELSE IF MatchCommand(args, free(args)[1]).tag = "exit"
         THEN MatchCommand(args, free(args)[1])
    ELSE MakeFlags(args, MatchCommand(args, free(args)[1]))

NotParsed == [tag |-> "none"]

\* the build system calls Flags::parse on its arguments
ParseFlags ==
    /\ flags = NotParsed
    /\ flags' = FlagsParse(cmdline)
    /\ UNCHANGED <<modules, cells, diags, external_exports, structs, trait_item_map,
                   unresolved_imports, parents, next_node_id, nitems, npopulates, aborted,
                   calls, walked, frames, cmdline>>

\* the Resolver before build_reduced_graph: Resolver::new, with graph_root a public
\* Normal module without parent
InitResolver ==
    /\ modules = << ModuleNew(RootLink, Some(MkDefId(LOCAL_CRATE, CRATE_DEF_INDEX)),
                              NormalModuleKind, FALSE, TRUE) >>
    /\ cells = << >>
    /\ diags = << >>
    /\ external_exports = {}
    /\ structs = EmptyMap
    /\ trait_item_map = EmptyMap
    /\ unresolved_imports = 0
    /\ parents = << 1 >>
    /\ next_node_id = 1
    /\ nitems = 0
    /\ npopulates = 0
    /\ aborted = FALSE
    /\ calls = << >>
    /\ walked = << >>
    /\ frames = << >>

Init ==
    /\ InitResolver
    /\ cmdline = << >>
    /\ flags = NotParsed

\* the build system is started with a command line of at most MaxArgs arguments
InitFlags ==
    /\ InitResolver
    /\ cmdline \in ArgLists(MaxArgs)
    /\ flags = NotParsed

NextFlags == ParseFlags

SpecFlags == InitFlags /\ [][NextFlags]_vars

Next ==
    \/ VisitItemExternCrate
    \/ VisitItemMod
    \/ VisitItemForeignMod
    \/ VisitItemStatic
    \/ VisitItemConst
    \/ VisitItemFn
    \/ VisitItemTy
    \/ VisitItemEnum
    \/ VisitItemStruct
    \/ VisitItemImpl
    \/ VisitItemTrait
    \/ LeaveItem
    \/ PopulateExternalModule

Spec == Init /\ [][Next]_vars

\* the walk of a crate of `extern crate` items, and the resolver's calls of
\* populate_module_if_necessary on any module
NextExt ==
    \/ VisitItemExternCrate
    \/ PopulateModuleIfNecessary

SpecExt == Init /\ [][NextExt]_vars

\* the walk of a crate of `use` items and modules
NextUse ==
    \/ VisitItemUse
    \/ VisitItemMod
    \/ LeaveItem

SpecUse == Init /\ [][NextUse]_vars

\* the walk of a crate of `use` items, `extern crate` items and modules
NextWalk ==
    \/ VisitItemUse
    \/ VisitItemExternCrate
    \/ VisitItemMod
    \/ LeaveItem

SpecWalk == Init /\ [][NextWalk]_vars

\* the walk of a crate of fns and `extern crate` items, and the resolver's calls of
\* populate_module_if_necessary on any module, the anonymous modules of blocks too
NextBlocks ==
    \/ VisitItemFn
    \/ VisitItemExternCrate
    \/ LeaveItem
    \/ PopulateModuleIfNecessary

SpecBlocks == Init /\ [][NextBlocks]_vars

\* the walk of a crate of `extern crate` items, and the resolver's calls of
\* populate_module_if_necessary run one child at a time; the builder runs on one
\* thread, and a call that was entered goes on until it returns or panics
NextSteps ==
    \/ VisitItemExternCrate
    \/ PopulateBegin
    \/ PopulateChild
    \/ PopulateReturn

SpecSteps ==
    Init /\ [][NextSteps]_vars /\ WF_vars(PopulateChild) /\ WF_vars(PopulateReturn)

(***************************************************************************)
(* Properties of the import bookkeeping (checked under SpecUse).           *)
(***************************************************************************)
ModuleIds == 1..Len(modules)

\* the positions of the single-import directives of module m that target x
SingleDirectives(m, x) ==
    { i \in DOMAIN modules[m].imports :
        /\ modules[m].imports[i].subclass.tag = "SingleImport"
        /\ modules[m].imports[i].subclass.target = x }

\* the positions of the glob directives of module m
GlobDirectives(m) ==
    { i \in DOMAIN modules[m].imports : modules[m].imports[i].subclass.tag = "GlobImport" }

\* every name a single-import directive of module m targets
SingleTargets(m) ==
    { modules[m].imports[i].subclass.target :
        i \in { j \in DOMAIN modules[m].imports :
                  modules[m].imports[j].subclass.tag = "SingleImport" } }

\* C1: in every module a name is a key of import_resolutions exactly when some
\* Single directive of the module's imports targets it, and the entry's
\* outstanding_references is the number of those directives.
C1_ImportResolutionsCountSingles ==
    \A m \in ModuleIds :
        /\ DOMAIN modules[m].import_resolutions = SingleTargets(m)
        /\ \A x \in DOMAIN modules[m].import_resolutions :
              modules[m].import_resolutions[x].outstanding_references
                  = Cardinality(SingleDirectives(m, x))

\* C1 witness: a module with two single imports of one name next to a glob import
C1_Witness ==
    \E m \in ModuleIds :
        /\ GlobDirectives(m) # {}
        /\ \E x \in DOMAIN modules[m].import_resolutions :
              /\ modules[m].import_resolutions[x].outstanding_references = 2
              /\ Cardinality(SingleDirectives(m, x)) = 2

\* C2: in every module glob_count is the number of Glob directives pushed onto its
\* imports and pub_glob_count the number of the public ones; Single directives
\* change neither counter.
C2_GlobCountersCountGlobs ==
    \A m \in ModuleIds :
        /\ modules[m].glob_count = Cardinality(GlobDirectives(m))
        /\ modules[m].pub_glob_count
             = Cardinality({ i \in GlobDirectives(m) : modules[m].imports[i].is_public })

\* C2 witness: a module with a private glob, and single imports besides
C2_Witness ==
    \E m \in ModuleIds :
        /\ modules[m].glob_count = 1
        /\ modules[m].pub_glob_count = 0
        /\ Len(modules[m].imports) > 1

(***************************************************************************)
(* Properties of add_child (checked under Spec).  They read the calls the  *)
(* last handler made.                                                      *)
(***************************************************************************)
AddChildCalls == { i \in DOMAIN calls : calls[i].op = "add_child" }

\* the DuplicateDefinition errors one logged call sent
DuplicateErrors(call) ==
    { j \in DOMAIN call.emitted :
        /\ call.emitted[j].level = "error"
        /\ call.emitted[j].msg = "DuplicateDefinition" }

\* what the cell found by a call held before the call
PreHasModule(call) ==
    /\ IsSome(Unwrap(call.pre).type_def)
    /\ IsSome(Unwrap(Unwrap(call.pre).type_def).module_def)
PreHasType(call) == IsSome(Unwrap(call.pre).type_def)
PreHasNonModuleType(call) ==
    /\ IsSome(Unwrap(call.pre).type_def)
    /\ IsSome(Unwrap(Unwrap(call.pre).type_def).type_def)
PreHasValue(call) == IsSome(Unwrap(call.pre).value_def)

\* the table of the cases in which add_child reports a duplicate
MustReport(call) ==
    /\ IsSome(call.pre)
    /\ \/ call.mode = ForbidDuplicateModules /\ PreHasModule(call)
       \/ call.mode = ForbidDuplicateTypesAndModules /\ PreHasType(call)
       \/ call.mode = ForbidDuplicateValues /\ PreHasValue(call)
       \/ call.mode = ForbidDuplicateTypesAndValues
            /\ (PreHasValue(call) \/ PreHasNonModuleType(call))

\* the namespace the report names
ReportedNamespace(call) ==
    IF \/ call.mode = ForbidDuplicateValues
       \/ call.mode = ForbidDuplicateTypesAndValues /\ PreHasValue(call)
    THEN "value" ELSE "type or module"

\* C3: add_child reports DuplicateDefinition exactly when the name already has a
\* cell in the parent and the mode forbids what the cell holds (modules for
\* ForbidDuplicateModules, any type binding for ForbidDuplicateTypesAndModules, a
\* value for ForbidDuplicateValues, a value or a non-module type for
\* ForbidDuplicateTypesAndValues); the report names "value" when the mode is
\* ForbidDuplicateValues or when ForbidDuplicateTypesAndValues meets a value, and
\* "type or module" otherwise; OverwriteDuplicates reports nothing.
C3_DuplicateReportedExactlyWhen ==
    \A i \in AddChildCalls :
        IF MustReport(calls[i])
        THEN /\ Cardinality(DuplicateErrors(calls[i])) = 1
             /\ \A j \in DuplicateErrors(calls[i]) :
                   calls[i].emitted[j].ns = ReportedNamespace(calls[i])
        ELSE DuplicateErrors(calls[i]) = {}

\* C3 witness: a call in mode ForbidDuplicateTypesAndValues found a cell with both a
\* value and a non-module type and reported the value namespace
C3_Witness ==
    \E i \in AddChildCalls :
        /\ calls[i].mode = ForbidDuplicateTypesAndValues
        /\ IsSome(calls[i].pre)
        /\ PreHasValue(calls[i]) /\ PreHasNonModuleType(calls[i])
        /\ \E j \in DuplicateErrors(calls[i]) : calls[i].emitted[j].ns = "value"

\* the places (module, name) whose children entry is cell c
CellPlaces(c) ==
    { mn \in ModuleIds \X UNION { DOMAIN modules[m].children : m \in ModuleIds } :
        /\ mn[2] \in DOMAIN modules[mn[1]].children
        /\ modules[mn[1]].children[mn[2]] = c }

\* every cell is the children entry of exactly one module under exactly one name
OneCellPerName == \A c \in DOMAIN cells : Cardinality(CellPlaces(c)) = 1

\* an entry of a children map, once made, is never removed or replaced
ChildrenKept ==
    \A m \in ModuleIds : \A n \in DOMAIN modules[m].children :
        /\ n \in DOMAIN modules'[m].children
        /\ modules'[m].children[n] = modules[m].children[n]

\* the cell a call returned is the entry of the parent's map, and the cell the call
\* found there
ReturnedCellIsEntry(call) ==
    /\ call.name \in DOMAIN modules[call.parent].children
    /\ modules[call.parent].children[call.name] = call.cell

\* some slot of the cell holds the definition made at span sp (spans are node ids)
HoldsDefinitionOf(cell, sp) ==
    \/ /\ IsSome(cell.value_def)
       /\ Unwrap(cell.value_def).def.def_id = local_def_id(sp)
    \/ /\ IsSome(cell.type_def)
       /\ IsSome(Unwrap(cell.type_def).type_def)
       /\ Unwrap(Unwrap(cell.type_def).type_def).def_id = local_def_id(sp)
    \/ /\ IsSome(cell.type_def)
       /\ IsSome(Unwrap(cell.type_def).module_def)
       /\ modules[Unwrap(Unwrap(cell.type_def).module_def)].def_id
             = Some(local_def_id(sp))

\* the last call of the handler on the cell of call i
LastOnCell(i) == \A j \in AddChildCalls : calls[j].cell = calls[i].cell => j <= i

DuplicateHandled ==
    \A i \in AddChildCalls :
        /\ ReturnedCellIsEntry(calls[i])
        /\ DuplicateErrors(calls[i]) # {} =>
              /\ ~aborted
              /\ LastOnCell(i) => HoldsDefinitionOf(cells[calls[i].cell], calls[i].span)

\* C4: a duplicate definition never stops the builder and never makes a second cell:
\* add_child returns the cell the parent's children map already has for the name
\* (the map keeps one cell per name and never removes or replaces an entry), the
\* caller installs the new binding into that cell, so that it afterwards holds the
\* later definition, and the walk goes on (the builder is not aborted).
C4_DuplicateKeepsCellAndBuilder ==
    /\ [](OneCellPerName /\ DuplicateHandled)
    /\ [][ChildrenKept]_vars

\* C4 witness: an item was lowered after an earlier item had reported a duplicate,
\* and a call of the last handler reported a duplicate itself
C4_Witness ==
    /\ ~aborted
    /\ \E i \in AddChildCalls :
          /\ DuplicateErrors(calls[i]) # {}
          /\ HoldsDefinitionOf(cells[calls[i].cell], calls[i].span)
          /\ \E d \in DOMAIN diags :
                /\ diags[d].msg = "DuplicateDefinition"
                /\ diags[d].span < calls[1].item.id

(***************************************************************************)
(* Properties of the lazy population (checked under SpecExt).              *)
(***************************************************************************)
\* the graph and the tables of a world, without the log of the calls
Graph(w) ==
    << w.modules, w.cells, w.diags, w.external_exports, w.structs, w.trait_item_map,
       w.unresolved_imports, w.aborted >>

\* the step is a call of populate_module_if_necessary; the module it was called on
IsPopulateStep == npopulates' = npopulates + 1
PopulatedModule == calls'[Len(calls')].module

\* a call on a populated module changes nothing and asks the crate store nothing
PopulatedIsNoOp ==
    (IsPopulateStep /\ modules[PopulatedModule].populated) =>
        /\ Graph([World EXCEPT !.calls = calls']) = Graph(World)'
        /\ Len(calls') = 1

\* a call that returns leaves the module populated
PopulateCompletes ==
    (IsPopulateStep /\ ~aborted') => modules'[PopulatedModule].populated

\* no step clears a populated flag
PopulatedMonotone ==
    \A m \in ModuleIds : modules[m].populated => modules'[m].populated

\* calling twice, or three times, leaves the graph that calling once leaves
SameAsOnce ==
    \A m \in ModuleIds :
        LET once == populate_module_if_necessary(World, m)
            twice == populate_module_if_necessary(once, m)
            thrice == populate_module_if_necessary(twice, m)
        IN ~once.aborted => Graph(twice) = Graph(once) /\ Graph(thrice) = Graph(once)

\* C5: populate_module_if_necessary is idempotent: on a populated module it is a
\* no-op (no change of the graph, no query of the crate store), a call that returns
\* leaves the module populated, so N calls have the effect of one, and populated
\* never goes back from true to false.
C5_PopulateIdempotent ==
    /\ []SameAsOnce
    /\ [][PopulatedIsNoOp /\ PopulateCompletes /\ PopulatedMonotone]_vars

\* C5 witness: a second call on an external module, which the first call populated,
\* has returned without a query of the crate store
C5_Witness ==
    /\ npopulates = 2
    /\ Len(calls) = 1
    /\ calls[1].op = "populate_module_if_necessary"
    /\ modules[calls[1].module].is_external
    /\ modules[calls[1].module].populated
    /\ modules[calls[1].module].children # EmptyMap

(***************************************************************************)
(* Properties of the shape of the graph (checked under Spec).              *)
(***************************************************************************)
NonRootModules == { m \in ModuleIds : modules[m].parent_link.tag # "Root" }

\* the module, if any, of the cell parent.children[name]
ChildModule(p, n) ==
    IF n \in DOMAIN modules[p].children
    THEN get_module_if_available(cells[modules[p].children[n]])
    ELSE None

\* the extern-crate root, if any, at parent.external_module_children[name]
ExternModule(p, n) ==
    IF n \in DOMAIN modules[p].external_module_children
    THEN Some(modules[p].external_module_children[n])
    ELSE None

\* the anonymous module, if any, at parent.anonymous_children[block]
BlockModule(p, b) ==
    IF b \in DOMAIN modules[p].anonymous_children
    THEN Some(modules[p].anonymous_children[b])
    ELSE None

\* m's parent_link resolves to a module whose children cell of that name, or whose
\* anonymous_children entry of that block, is m
HeldByChildren(m) ==
    LET l == modules[m].parent_link IN
    /\ l.parent \in ModuleIds
    /\ IF l.tag = "ModuleParent" THEN ChildModule(l.parent, l.name) = Some(m)
                                  ELSE BlockModule(l.parent, l.block) = Some(m)

\* ... or whose external_module_children entry of that name is m
HeldAsExternCrate(m) ==
    LET l == modules[m].parent_link IN
    /\ l.parent \in ModuleIds
    /\ l.tag = "ModuleParent"
    /\ ExternModule(l.parent, l.name) = Some(m)

\* a later definition of the same name in the same parent has taken m's place
Displaced(m) ==
    LET l == modules[m].parent_link IN
    /\ l.parent \in ModuleIds
    /\ l.tag = "ModuleParent"
    /\ \/ IsSome(ChildModule(l.parent, l.name)) /\ Unwrap(ChildModule(l.parent, l.name)) > m
       \/ IsSome(ExternModule(l.parent, l.name)) /\ Unwrap(ExternModule(l.parent, l.name)) > m

\* every module a map holds is linked to the module and the key that hold it
LinksMatchMaps ==
    \A p \in ModuleIds :
        /\ \A n \in DOMAIN modules[p].children :
              IsSome(ChildModule(p, n)) =>
                  modules[Unwrap(ChildModule(p, n))].parent_link = ModuleParentLink(p, n)
        /\ \A n \in DOMAIN modules[p].external_module_children :
              modules[modules[p].external_module_children[n]].parent_link
                  = ModuleParentLink(p, n)
        /\ \A b \in DOMAIN modules[p].anonymous_children :
              modules[modules[p].anonymous_children[b]].parent_link
                  = BlockParentLink(p, b)

\* C6 as stated: every non-root module the builder has made (nested modules, enum and
\* trait companion modules, anonymous block modules, extern-crate roots) has a
\* parent_link that resolves to a module whose children map (under its name) or
\* anonymous_children map (under its block id) holds that very module.
C6_EveryModuleHeldByChildren == \A m \in NonRootModules : HeldByChildren(m)

\* C6 amended: every non-root module has a parent_link that resolves to a module
\* which holds it in its children cell of that name, in anonymous_children under
\* the block id, or (extern-crate roots) in external_module_children under the
\* name, unless a later definition of the same name in that parent has taken its
\* place; and every module one of the three maps holds is linked to the holder.
C6_ModuleHeldByParentLink ==
    /\ \A m \in NonRootModules :
          HeldByChildren(m) \/ HeldAsExternCrate(m) \/ Displaced(m)
    /\ LinksMatchMaps

\* C6 witness: a nested module held by a children cell next to an extern-crate root
\* held by external_module_children
C6_Witness ==
    /\ \E m \in NonRootModules : HeldByChildren(m) /\ modules[m].kind = NormalModuleKind
                                    /\ modules[m].parent_link.parent # 1
    /\ \E m \in NonRootModules : HeldAsExternCrate(m) /\ ~HeldByChildren(m)

(***************************************************************************)
(* Properties of enums and their variants (checked under Spec).            *)
(***************************************************************************)
\* the last handler lowered an item of the given kind
JustVisited(node) ==
    /\ calls # << >>
    /\ calls[1].op = "visit_item"
    /\ calls[1].item.node = node

\* the cell of variant v in module e holds Variant(E, V, is_struct) in both slots, with
\* the modifiers PUBLIC | IMPORTABLE
VariantBound(e, item, v) ==
    /\ v.name \in DOMAIN modules[e].children
    /\ LET cell == cells[modules[e].children[v.name]]
           def == DefVariant(local_def_id(item.id), local_def_id(v.id), v.is_struct)
       IN /\ IsSome(cell.type_def)
          /\ Unwrap(cell.type_def).type_def = Some(def)
          /\ Unwrap(cell.type_def).modifiers = {PUBLIC, IMPORTABLE}
          /\ IsSome(cell.value_def)
          /\ Unwrap(cell.value_def).def = def
          /\ Unwrap(cell.value_def).modifiers = {PUBLIC, IMPORTABLE}

\* the companion module of the enum just lowered
CompanionModule == ChildModule(calls[1].parent, calls[1].item.name)

\* no later variant of the enum has the name of variant i
LastOfItsName(variants, i) ==
    \A j \in DOMAIN variants : j > i => variants[j].name # variants[i].name

\* C7 as stated: after a local enum item is lowered, the cell of every variant V in the
\* enum's companion module has its type slot and its value slot bound to
\* Variant(E, V, is_struct_variant), each with the modifiers PUBLIC | IMPORTABLE.
C7_EveryVariantBound ==
    JustVisited("ItemEnum") =>
        /\ IsSome(CompanionModule)
        /\ \A i \in DOMAIN calls[1].item.variants :
              VariantBound(Unwrap(CompanionModule), calls[1].item, calls[1].item.variants[i])

\* C7 amended: the same for every variant whose name no later variant of the enum
\* repeats (of two variants of one name the cell holds the later one).
C7_LastVariantOfNameBound ==
    JustVisited("ItemEnum") =>
        /\ IsSome(CompanionModule)
        /\ \A i \in DOMAIN calls[1].item.variants :
              LastOfItsName(calls[1].item.variants, i) =>
                  VariantBound(Unwrap(CompanionModule), calls[1].item,
                               calls[1].item.variants[i])

\* C7 witness: an enum with a unit variant and a struct variant of different names was
\* lowered and both are bound
C7_Witness ==
    /\ JustVisited("ItemEnum")
    /\ IsSome(CompanionModule)
    /\ \E i, j \in DOMAIN calls[1].item.variants :
          /\ calls[1].item.variants[i].name # calls[1].item.variants[j].name
          /\ calls[1].item.variants[i].is_struct /\ ~calls[1].item.variants[j].is_struct
          /\ VariantBound(Unwrap(CompanionModule), calls[1].item, calls[1].item.variants[i])
          /\ VariantBound(Unwrap(CompanionModule), calls[1].item, calls[1].item.variants[j])

\* the cell holds a Variant def in its type slot or in its value slot
HoldsVariant(cell) ==
    \/ /\ IsSome(cell.type_def)
       /\ IsSome(Unwrap(cell.type_def).type_def)
       /\ Unwrap(Unwrap(cell.type_def).type_def).tag = "Variant"
    \/ /\ IsSome(cell.value_def)
       /\ Unwrap(cell.value_def).def.tag = "Variant"

\* C8: in every state, also after duplicate definitions (an enum and a type alias of
\* one name in one module), every cell whose type or value slot holds a Variant def
\* is a child of a module of kind Enum.
C8_VariantsInEnumModules ==
    \A m \in ModuleIds : \A n \in DOMAIN modules[m].children :
        HoldsVariant(cells[modules[m].children[n]]) => modules[m].kind = EnumModuleKind

(***************************************************************************)
(* Properties of trait items (checked under Spec).                         *)
(***************************************************************************)
TraitItemTags == {"Method", "AssociatedConst", "AssociatedTy"}

\* no trait item bound in the cell is importable
TraitItemsNotImportable(cell) ==
    /\ (/\ IsSome(cell.value_def)
        /\ Unwrap(cell.value_def).def.tag \in TraitItemTags)
          => IMPORTABLE \notin Unwrap(cell.value_def).modifiers
    /\ (/\ IsSome(cell.type_def)
        /\ IsSome(Unwrap(cell.type_def).type_def)
        /\ Unwrap(Unwrap(cell.type_def).type_def).tag \in TraitItemTags)
          => IMPORTABLE \notin Unwrap(cell.type_def).modifiers

\* C9: every trait item (method, associated constant, associated type) bound in a
\* module of kind Trait, by a local trait item or by the population of an external
\* trait, has IMPORTABLE cleared in its modifiers.
C9_TraitItemsNotImportable ==
    \A m \in ModuleIds :
        modules[m].kind = TraitModuleKind =>
            \A n \in DOMAIN modules[m].children :
                TraitItemsNotImportable(cells[modules[m].children[n]])

\* C9 witness: the module of an external trait was populated with a method and an
\* associated type
C9_Witness ==
    \E m \in ModuleIds :
        /\ modules[m].kind = TraitModuleKind
        /\ modules[m].is_external
        /\ \E n \in DOMAIN modules[m].children :
              LET cell == cells[modules[m].children[n]] IN
              /\ IsSome(cell.value_def)
              /\ Unwrap(cell.value_def).def.tag = "Method"
              /\ Unwrap(cell.value_def).modifiers = {PUBLIC}
        /\ \E n \in DOMAIN modules[m].children :
              LET cell == cells[modules[m].children[n]] IN
              /\ IsSome(cell.type_def)
              /\ IsSome(Unwrap(cell.type_def).type_def)
              /\ Unwrap(Unwrap(cell.type_def).type_def).tag = "AssociatedTy"

(***************************************************************************)
(* The crate `mod a {} fn a(){}` (checked under Spec).                     *)
(***************************************************************************)
\* the node ids of the first and of the second item of the crate
ItemIds == {1, 1 + IdsPerItem}

\* the crate lowered so far is a module and a function of the name n, both items of
\* the crate root, and the function has no items in its body
ModAndFnOfOneName(n) ==
    /\ nitems = 2
    /\ Len(cells) = 1
    /\ Len(modules) = 2
    /\ modules[2].kind = NormalModuleKind
    /\ modules[2].parent_link = ModuleParentLink(1, n)
    /\ \E i \in ItemIds : modules[2].def_id = Some(local_def_id(i))
    /\ n \in DOMAIN modules[1].children
    /\ IsSome(cells[modules[1].children[n]].value_def)
    /\ \E i \in ItemIds :
          Unwrap(cells[modules[1].children[n]].value_def).def = DefFn(local_def_id(i), FALSE)

\* the type slot of root.children[n] holds the module and no Def
ModuleInTypeSlot(n) ==
    LET cell == cells[modules[1].children[n]] IN
    /\ IsSome(cell.type_def)
    /\ Unwrap(cell.type_def).module_def = Some(2)
    /\ IsNone(Unwrap(cell.type_def).type_def)

DuplicateDefinitionErrors ==
    { d \in DOMAIN diags : diags[d].level = "error" /\ diags[d].msg = "DuplicateDefinition" }
Warnings == { d \in DOMAIN diags : diags[d].level = "warning" }

\* C10 as stated: for `mod a {} fn a(){}` the one cell root.children[a] holds the module
\* in its type slot and the Fn def in its value slot, no DuplicateDefinition error is
\* reported, and exactly one deprecation warning "duplicate definition of type or
\* module a" is sent.
C10_ModAndFnOneWarning ==
    \A n \in Names :
        ModAndFnOfOneName(n) =>
            /\ ModuleInTypeSlot(n)
            /\ DuplicateDefinitionErrors = {}
            /\ Cardinality(Warnings) = 1
            /\ \A d \in Warnings : diags[d].ns = "type or module" /\ diags[d].name = n

\* C10 amended: the same cell and slots, no DuplicateDefinition error, and no warning
\* or other diagnostic at all.
C10_ModAndFnNoDiagnostic ==
    \A n \in Names :
        ModAndFnOfOneName(n) =>
            /\ ModuleInTypeSlot(n)
            /\ DuplicateDefinitionErrors = {}
            /\ diags = << >>

\* C10 witness: `mod a {}` and then `fn a(){}` were lowered
C10_Witness ==
    /\ ModAndFnOfOneName("a")
    /\ ModuleInTypeSlot("a")
    /\ JustVisited("ItemFn")
    /\ modules[2].def_id = Some(local_def_id(1))

(***************************************************************************)
(* Properties of `extern crate` items (checked under SpecExt).             *)
(***************************************************************************)
\* the step lowers an item of the given kind
Visits(node) ==
    /\ nitems' = nitems + 1
    /\ calls'[1].op = "visit_item"
    /\ calls'[1].item.node = node

\* the crate store was asked for the top-level items of the crate of def_id
AskedTopLevelItems(log, def_id) ==
    \E i \in DOMAIN log :
        /\ log[i].op = "each_top_level_item_of_crate"
        /\ log[i].def_id = def_id

\* after the step the parent holds, as its external child of the item's name, a
\* populated module of the crate root def id, which is exported
ExternCrateAttached(item, parent, def_id) ==
    /\ item.name \in DOMAIN modules'[parent].external_module_children
    /\ LET m == modules'[parent].external_module_children[item.name] IN
       /\ m \notin ModuleIds
       /\ modules'[m].def_id = Some(def_id)
       /\ modules'[m].populated
       /\ modules'[m].parent_link = ModuleParentLink(parent, item.name)
    /\ def_id \in external_exports'
    /\ AskedTopLevelItems(calls', def_id)

\* the step attaches no external child and exports nothing
ExternCrateIgnored(parent) ==
    /\ modules' = modules
    /\ external_exports' = external_exports
    /\ \A i \in DOMAIN calls' : calls'[i].op = "visit_item"

ExternCrateStep ==
    Visits("ItemExternCrate") =>
        IF IsSome(calls'[1].item.cnum)
        THEN ExternCrateAttached(calls'[1].item, calls'[1].parent,
                                 MkDefId(Unwrap(calls'[1].item.cnum), CRATE_DEF_INDEX))
        ELSE ExternCrateIgnored(calls'[1].parent)

\* C11: after an `extern crate foo;` item for which the crate store returns the crate
\* number c, the current parent's external_module_children[foo] is a module made by
\* that step with def_id {c, CRATE_DEF_INDEX}, populated once the eager population
\* (the query of the crate's top-level items) has run, and external_exports holds
\* {c, CRATE_DEF_INDEX}; when the store returns no crate number, no external child is
\* attached and external_exports is unchanged.
C11_ExternCrateAttachesRoot == [][ExternCrateStep]_vars

\* C11 witness: `extern crate a;` bound to crate 1 was lowered: the root of crate 1 is
\* an external child of the crate root, exported, populated and filled
C11_Witness ==
    /\ JustVisited("ItemExternCrate")
    /\ calls[1].item.cnum = Some(1)
    /\ IsSome(ExternModule(calls[1].parent, calls[1].item.name))
    /\ LET m == Unwrap(ExternModule(calls[1].parent, calls[1].item.name)) IN
       /\ modules[m].def_id = Some(MkDefId(1, CRATE_DEF_INDEX))
       /\ modules[m].populated
       /\ modules[m].children # EmptyMap
    /\ MkDefId(1, CRATE_DEF_INDEX) \in external_exports

(***************************************************************************)
(* Properties of the modules of external crates (checked under Spec).      *)
(***************************************************************************)
\* the modules that stand for content of an external crate: the roots attached by
\* `extern crate` items and the modules defined by handle_external_def
ExternalContentModules ==
    { m \in ModuleIds :
        IsSome(modules[m].def_id) /\ Unwrap(modules[m].def_id).krate # LOCAL_CRATE }

\* the queries of the step for the children of module m
ChildQueries(log, m) ==
    { i \in DOMAIN log :
        /\ log[i].op \in {"each_child_of_item", "each_top_level_item_of_crate"}
        /\ log[i].module = m }

\* a step asks the crate store for the children of a module at most once, and only
\* for a module made in that step or not populated before it, which is populated
\* after it; populated is never cleared
AskedAtMostOnce ==
    /\ \A m \in 1..Len(modules') :
          /\ Cardinality(ChildQueries(calls', m)) <= 1
          /\ ChildQueries(calls', m) # {} =>
                /\ m \in ModuleIds => ~modules[m].populated
                /\ ~aborted' => modules'[m].populated
    /\ PopulatedMonotone

ExternalModulesFlagged == \A m \in ExternalContentModules : modules[m].is_external

\* C12: every module that stands for content of an external crate (the root module
\* attached by an `extern crate` item as well as every module defined by
\* handle_external_def) carries is_external = true, and the crate store is asked for
\* the children of any one such module at most once over the builder's lifetime.
C12_ExternalModulesFlaggedAskedOnce ==
    /\ []ExternalModulesFlagged
    /\ [][AskedAtMostOnce]_vars

\* what holds of C12: the queries are made at most once per module, and the modules
\* defined by handle_external_def (all but the extern-crate roots) carry the flag
C12_AskedOnceAndChildrenFlagged ==
    /\ [](\A m \in ExternalContentModules :
            Unwrap(modules[m].def_id).index # CRATE_DEF_INDEX => modules[m].is_external)
    /\ [][AskedAtMostOnce]_vars

(***************************************************************************)
(* Properties of blocks (checked under Spec).  The blocks of the crate are *)
(* the bodies of its fn items.                                             *)
(***************************************************************************)
\* some top-level statement of the block declares an item
DeclaresItem(block) == \E i \in DOMAIN block.stmts : block.stmts[i] = "DeclItem"

\* the modules linked as the anonymous module of block b of parent p
BlockModulesOf(mods, p, b) ==
    { m \in DOMAIN mods : mods[m].parent_link = BlockParentLink(p, b) }

\* the step made one anonymous module for the block, held by the enclosing parent p
\* under the block's id, and the visitor goes on in it
AnonymousModuleMade(block, p) ==
    /\ Len(modules') = Len(modules) + 1
    /\ block.id \notin DOMAIN modules[p].anonymous_children
    /\ block.id \in DOMAIN modules'[p].anonymous_children
    /\ LET m == modules'[p].anonymous_children[block.id] IN
       /\ m = Len(modules')
       /\ modules'[m].kind = AnonymousModuleKind
       /\ modules'[m].def_id = None
       /\ ~modules'[m].is_public
       /\ modules'[m].parent_link = BlockParentLink(p, block.id)
       /\ BlockModulesOf(modules', p, block.id) = {m}
       /\ parents' = Append(parents, m)

\* the step made no module, and the visitor goes on in the enclosing parent
NoAnonymousModule(block, p) ==
    /\ Len(modules') = Len(modules)
    /\ modules'[p].anonymous_children = modules[p].anonymous_children
    /\ BlockModulesOf(modules', p, block.id) = {}
    /\ parents' = parents

BlockStep ==
    Visits("ItemFn") =>
        IF DeclaresItem(calls'[1].item.body)
        THEN AnonymousModuleMade(calls'[1].item.body, calls'[1].parent)
        ELSE NoAnonymousModule(calls'[1].item.body, calls'[1].parent)

NamedItemKinds ==
    {"ItemMod", "ItemStatic", "ItemConst", "ItemFn", "ItemTy", "ItemEnum", "ItemStruct",
     "ItemTrait"}

\* the item just lowered is bound in the module that was the visitor's parent
BoundInParent ==
    /\ calls[1].item.name \in DOMAIN modules[calls[1].parent].children
    /\ HoldsDefinitionOf(cells[modules[calls[1].parent].children[calls[1].item.name]],
                         calls[1].item.id)

\* an item declared in a block that has an anonymous module is bound in that module
BlockItemBound ==
    (/\ calls # << >>
     /\ calls[1].op = "visit_item"
     /\ calls[1].item.node \in NamedItemKinds
     /\ modules[calls[1].parent].kind = AnonymousModuleKind) => BoundInParent

\* a step that lowers an item declared in a block leaves the children of the module
\* that encloses the block, and their cells, as they were
EnclosingUntouched ==
    (nitems' = nitems + 1 /\ modules[current_parent].kind = AnonymousModuleKind) =>
        LET e == modules[current_parent].parent_link.parent IN
        /\ calls'[1].parent = current_parent
        /\ modules'[e].children = modules[e].children
        /\ \A n \in DOMAIN modules[e].children :
              cells'[modules[e].children[n]] = cells[modules[e].children[n]]
        /\ \A i \in DOMAIN calls' : calls'[i].op = "add_child" => calls'[i].parent # e

\* C13: for every block visited: if none of its top-level statements declares an
\* item, no anonymous module is made and the visitor goes on with the enclosing
\* parent; if one does, exactly one anonymous module (kind Anonymous, no def_id, not
\* public, BlockParent link to the enclosing parent) is in the parent's
\* anonymous_children under the block's id, and every item declared in the block is
\* bound in that module and not in the enclosing one.
C13_BlockAnonymousModule ==
    /\ []BlockItemBound
    /\ [][BlockStep /\ EnclosingUntouched]_vars

\* C13 witness: an item was lowered inside the body of a fn of the same name: it is
\* bound in the block's anonymous module, next to the fn's binding in the enclosing one
C13_Witness ==
    /\ calls # << >>
    /\ calls[1].op = "visit_item"
    /\ calls[1].item.node \in NamedItemKinds
    /\ modules[calls[1].parent].kind = AnonymousModuleKind
    /\ BoundInParent
    /\ LET l == modules[calls[1].parent].parent_link IN
       /\ BlockModule(l.parent, l.block) = Some(calls[1].parent)
       /\ calls[1].item.name \in DOMAIN modules[l.parent].children
       /\ modules[l.parent].children[calls[1].item.name]
             # modules[calls[1].parent].children[calls[1].item.name]

(***************************************************************************)
(* Properties of `use` items (checked under SpecUse).                      *)
(***************************************************************************)
\* what the step added to the diagnostics and to the imports of module m
NewDiags == SubSeq(diags', Len(diags) + 1, Len(diags'))
NewImports(m) == SubSeq(modules'[m].imports, Len(modules[m].imports) + 1,
                        Len(modules'[m].imports))

SelfEntries(items) == { i \in DOMAIN items : items[i].tag = "PathListMod" }
IdentEntries(items) == { i \in DOMAIN items : items[i].tag = "PathListIdent" }

\* the errors of the step that tell entry e that `self` needs a non-empty prefix
SelfPrefixErrors(e) ==
    { d \in DOMAIN NewDiags :
        /\ NewDiags[d].level = "error"
        /\ NewDiags[d].msg = "SelfImportOnlyInImportListWithNonEmptyPrefix"
        /\ NewDiags[d].span = e.id }

\* the name an identifier entry binds
BoundName(e) == IF IsSome(e.rename) THEN Unwrap(e.rename) ELSE e.name

\* the identifier entries of the list that bind x
IdentsBinding(items, x) == { i \in IdentEntries(items) : BoundName(items[i]) = x }

OldReferences(m, x) ==
    IF x \in DOMAIN modules[m].import_resolutions
    THEN modules[m].import_resolutions[x].outstanding_references ELSE 0

\* the step lowers a list import without prefix: what it records on parent p is what
\* the identifier entries of the list record
EmptyPrefixListRecorded(item, p) ==
    LET items == item.view_path.items
        idents == IdentEntries(items)
    IN /\ \A i \in SelfEntries(items) : Cardinality(SelfPrefixErrors(items[i])) = 1
       /\ Len(NewImports(p)) = Cardinality(idents)
       /\ \A d \in DOMAIN NewImports(p) :
             \E i \in idents : NewImports(p)[d].id = items[i].id
       /\ \A i \in idents :
             \E d \in DOMAIN NewImports(p) : NewImports(p)[d].id = items[i].id
       /\ unresolved_imports' = unresolved_imports + Cardinality(idents)
       /\ modules'[p].pub_count =
             modules[p].pub_count + IF item.is_public THEN Cardinality(idents) ELSE 0
       /\ DOMAIN modules'[p].import_resolutions =
             DOMAIN modules[p].import_resolutions
                \cup { BoundName(items[i]) : i \in idents }
       /\ \A x \in DOMAIN modules'[p].import_resolutions :
             modules'[p].import_resolutions[x].outstanding_references =
                 OldReferences(p, x) + Cardinality(IdentsBinding(items, x))
       /\ idents = {} => modules' = modules /\ unresolved_imports' = unresolved_imports

EmptyPrefixListStep ==
    (/\ Visits("ItemUse")
     /\ calls'[1].item.view_path.tag = "ViewPathList"
     /\ calls'[1].item.view_path.path = << >>)
        => EmptyPrefixListRecorded(calls'[1].item, calls'[1].parent)

\* C14: in a list import whose path prefix is empty, every `self` entry sends
\* SelfImportOnlyInImportListWithNonEmptyPrefix and records nothing: no directive is
\* appended to imports for it, and import_resolutions, pub_count and
\* unresolved_imports change only by what the other entries of the list record,
\* which are still recorded.
C14_SelfWithoutPrefixRecordsNothing == [][EmptyPrefixListStep]_vars

\* C14 witness: `pub use {self, b as a};` was lowered: one error, one directive
C14_Witness ==
    /\ JustVisited("ItemUse")
    /\ calls[1].item.is_public
    /\ calls[1].item.view_path.tag = "ViewPathList"
    /\ calls[1].item.view_path.path = << >>
    /\ SelfEntries(calls[1].item.view_path.items) # {}
    /\ IdentEntries(calls[1].item.view_path.items) # {}
    /\ Len(modules[calls[1].parent].imports) = 1
    /\ modules[calls[1].parent].pub_count = 1
    /\ unresolved_imports = 1
    /\ \E d \in DOMAIN diags :
          diags[d].msg = "SelfImportOnlyInImportListWithNonEmptyPrefix"

\* the shape of a directive: its module path, its kind, its source and its binding
Shape(module_path, tag, source, binding) ==
    [module_path |-> module_path, tag |-> tag, source |-> source, binding |-> binding]
ShapeOf(directive) ==
    Shape(directive.module_path, directive.subclass.tag, directive.subclass.source,
          directive.subclass.target)

AllButLast(path) == SubSeq(path, 1, Len(path) - 1)
Last(path) == path[Len(path)]

\* the directives the entries of a list with prefix P stand for, from entry i on
RECURSIVE ListShapes(_, _, _)
ListShapes(P, items, i) ==
    IF i > Len(items) THEN << >>
    ELSE (CASE items[i].tag = "PathListIdent" ->
                  << Shape(P, "SingleImport", items[i].name, BoundName(items[i])) >>
            [] items[i].tag = "PathListMod" /\ P # << >> ->
                  << Shape(AllButLast(P), "SingleImport", Last(P),
                           IF IsSome(items[i].rename) THEN Unwrap(items[i].rename)
                                                      ELSE Last(P)) >>
            [] OTHER -> << >>)
         \o ListShapes(P, items, i + 1)

\* the directives a `use` item stands for
UseShapes(view_path) ==
    CASE view_path.tag = "ViewPathSimple" ->
              << Shape(AllButLast(view_path.path), "SingleImport", Last(view_path.path),
                       view_path.binding) >>
      [] view_path.tag = "ViewPathGlob" ->
              << Shape(view_path.path, "GlobImport", "", "") >>
      [] view_path.tag = "ViewPathList" -> ListShapes(view_path.path, view_path.items, 1)

UseStep ==
    Visits("ItemUse") =>
        /\ calls'[1].parent = current_parent
        /\ [i \in DOMAIN NewImports(current_parent) |-> ShapeOf(NewImports(current_parent)[i])]
              = UseShapes(calls'[1].item.view_path)
        /\ \A m \in ModuleIds :
              /\ SubSeq(modules'[m].imports, 1, Len(modules[m].imports)) = modules[m].imports
              /\ m # current_parent => modules'[m].imports = modules[m].imports

\* C15: a `use` item appends to the imports of the current parent directives of
\* exactly this shape: a Simple path one Single directive with module_path = all
\* segments but the last, source = the last segment and binding = the bound name; a
\* Glob one Glob directive with module_path = all segments; a List with prefix P, in
\* list order, one Single directive per entry, where an identifier entry n (renamed
\* r) gives module_path = P, source = n, binding = r or n, and a `self` entry with
\* non-empty P gives module_path = P without its last segment, source = the last
\* segment of P and binding = the rename or that segment.
C15_UseDirectiveShapes == [][UseStep]_vars

\* C15 witness: inside a nested module, `use a::b::{self as b, self};` was lowered:
\* the module's two directives import b from a
C15_Witness ==
    /\ JustVisited("ItemUse")
    /\ calls[1].parent # 1
    /\ calls[1].item.view_path.tag = "ViewPathList"
    /\ calls[1].item.view_path.path = << "a", "b" >>
    /\ SelfEntries(calls[1].item.view_path.items) = {1, 2}
    /\ LET imports == modules[calls[1].parent].imports IN
       /\ Len(imports) = 2
       /\ ShapeOf(imports[1]) = Shape(<< "a" >>, "SingleImport", "b", "b")
       /\ ShapeOf(imports[2]) = Shape(<< "a" >>, "SingleImport", "b", "b")

(***************************************************************************)
(* Determinism of the builder (checked under SpecWalk).                    *)
(***************************************************************************)
\* the Resolver before build_reduced_graph
NewResolver ==
    [modules |-> << ModuleNew(RootLink, Some(MkDefId(LOCAL_CRATE, CRATE_DEF_INDEX)),
                              NormalModuleKind, FALSE, TRUE) >>,
     cells |-> << >>, diags |-> << >>, external_exports |-> {}, structs |-> EmptyMap,
     trait_item_map |-> EmptyMap, unresolved_imports |-> 0, aborted |-> FALSE,
     calls |-> << >>, ret |-> << 1 >>]

\* the visitor's parents after an item whose lowering and walk returned module p
Entered(ps, p) == IF p # ps[Len(ps)] THEN Append(ps, p) ELSE ps

\* a second run of build_reduced_graph over the crate tree k from its event i on, in
\* world w with the visitor's parents ps; the result's ret is the parents at the end
RECURSIVE Rerun(_, _, _, _)
RerunVisited(visited, ps, k, i) ==
    Rerun([visited EXCEPT !.calls = << >>], Entered(ps, visited.ret), k, i + 1)

Rerun(w, ps, k, i) ==
    IF i > Len(k) THEN [w EXCEPT !.ret = ps]
    ELSE IF k[i].ev = "leave" THEN Rerun(w, SubSeq(ps, 1, Len(ps) - 1), k, i + 1)
    ELSE RerunVisited(
             walk_item(build_reduced_graph_for_item(w, k[i].item, ps[Len(ps)]), k[i].item),
             ps, k, i)

SecondRun == Rerun(NewResolver, << 1 >>, walked, 1)

RECURSIVE ModuleView(_, _)
TypeSlotView(w, slot) ==
    IF IsNone(slot) THEN None
    ELSE Some([modifiers |-> Unwrap(slot).modifiers,
               type_def |-> Unwrap(slot).type_def,
               type_span |-> Unwrap(slot).type_span,
               module_def |-> IF IsSome(Unwrap(slot).module_def)
                              THEN Some(ModuleView(w, Unwrap(Unwrap(slot).module_def)))
                              ELSE None])

ModuleView(w, m) ==
    [kind |-> w.modules[m].kind,
     def_id |-> w.modules[m].def_id,
     is_public |-> w.modules[m].is_public,
     populated |-> w.modules[m].populated,
     imports |-> w.modules[m].imports,
     children |->
        [n \in DOMAIN w.modules[m].children |->
            [value_def |-> w.cells[w.modules[m].children[n]].value_def,
             type_def |-> TypeSlotView(w, w.cells[w.modules[m].children[n]].type_def)]],
     anonymous_children |->
        [b \in DOMAIN w.modules[m].anonymous_children |->
            ModuleView(w, w.modules[m].anonymous_children[b])],
     external_module_children |->
        [n \in DOMAIN w.modules[m].external_module_children |->
            ModuleView(w, w.modules[m].external_module_children[n])]]

\* what the claim compares: the children and modifiers of the whole graph, and the
\* side tables
FinalState(w) ==
    [graph |-> ModuleView(w, 1), external_exports |-> w.external_exports,
     structs |-> w.structs, trait_item_map |-> w.trait_item_map]

\* the pairs of unpopulated external modules that are children of one module
UnpopulatedSiblings ==
    { ab \in ModuleIds \X ModuleIds :
        /\ ab[1] < ab[2]
        /\ \A m \in {ab[1], ab[2]} :
              /\ modules[m].is_external
              /\ ~modules[m].populated
              /\ modules[m].parent_link.tag = "ModuleParent"
        /\ modules[ab[1]].parent_link.parent = modules[ab[2]].parent_link.parent
        /\ HeldByChildren(ab[1]) /\ HeldByChildren(ab[2]) }

PopulatedInOrder(a, b) ==
    populate_module_if_necessary(populate_module_if_necessary(World, a), b)

\* C17: the order in which sibling external modules are populated does not matter:
\* for any two unpopulated external modules A and B with the same parent,
\* populate_module_if_necessary(A) followed by populate_module_if_necessary(B)
\* leaves the same children, modifiers, external_exports, structs and
\* trait_item_map as the two calls in the opposite order.
C17_PopulationOrderIrrelevant ==
    \A ab \in UnpopulatedSiblings :
        \E x \in { PopulatedInOrder(ab[1], ab[2]) } :
        \E y \in { PopulatedInOrder(ab[2], ab[1]) } :
            (~x.aborted /\ ~y.aborted) => FinalState(x) = FinalState(y)

\* what holds of C17: the two orders leave the same graph and the same structs and
\* trait_item_map; external_exports may differ
C17_PopulationOrderSameGraph ==
    \A ab \in UnpopulatedSiblings :
        \E x \in { PopulatedInOrder(ab[1], ab[2]) } :
        \E y \in { PopulatedInOrder(ab[2], ab[1]) } :
            (~x.aborted /\ ~y.aborted) =>
                FinalState(x) = [FinalState(y) EXCEPT !.external_exports = x.external_exports]

(***************************************************************************)
(* Exportedness of external defs (checked under Spec).                     *)
(***************************************************************************)
HandledExternalDefs ==
    { calls[i] : i \in { k \in DOMAIN calls : calls[k].op = "handle_external_def" } }

\* the def is public, and its containing module is a crate root or has its def id in
\* external_exports when the def is handled
PublicInExportedParent(r) ==
    /\ r.is_public
    /\ IsSome(r.parent_def)
    /\ \/ Unwrap(r.parent_def).index = CRATE_DEF_INDEX
       \/ Unwrap(r.parent_def) \in r.pre

\* C18: for every external def handled by handle_external_def, its def id is added to
\* external_exports iff it is public and its containing module is the crate root or a
\* module whose own def id is already in external_exports; a non-public child, or a
\* child of a non-exported module, adds nothing to external_exports in that step.
C18_ExportedIffPublicInExportedParent ==
    \A r \in HandledExternalDefs :
        IF PublicInExportedParent(r)
        THEN r.def_id \in r.post
        ELSE r.post = r.pre

\* the second population of a crate's modules handles a public def of an exported
\* module below the root, after the first one handled a public def of a module that
\* is not exported
C18_Witness ==
    /\ npopulates = 2
    /\ \E r \in HandledExternalDefs :
          /\ PublicInExportedParent(r)
          /\ Unwrap(r.parent_def).index # CRATE_DEF_INDEX
          /\ r.def_id \notin r.pre
          /\ r.def_id \in external_exports
    /\ \E m \in ModuleIds :
          /\ modules[m].def_id = Some(MkDefId(3, 1))
          /\ modules[m].populated
          /\ "a" \in DOMAIN modules[m].children
          /\ MkDefId(3, 11) \notin external_exports

(***************************************************************************)
(* The import counters (checked under SpecUse).                            *)
(***************************************************************************)
\* how many globs, public directives and public globs the step recorded on module m
RecordedGlobs(m) ==
    Cardinality({ i \in DOMAIN NewImports(m) : NewImports(m)[i].subclass.tag = "GlobImport" })
RecordedPublic(m) ==
    Cardinality({ i \in DOMAIN NewImports(m) : NewImports(m)[i].is_public })
RecordedPublicGlobs(m) ==
    Cardinality({ i \in DOMAIN NewImports(m) :
                    /\ NewImports(m)[i].subclass.tag = "GlobImport"
                    /\ NewImports(m)[i].is_public })

\* the directives of m before the step are still its first directives
ImportsKept(m) ==
    /\ Len(modules'[m].imports) >= Len(modules[m].imports)
    /\ SubSeq(modules'[m].imports, 1, Len(modules[m].imports)) = modules[m].imports

CountersStep ==
    \A m \in ModuleIds :
        /\ ImportsKept(m)
        /\ modules'[m].glob_count >= modules[m].glob_count
        /\ modules'[m].pub_glob_count >= modules[m].pub_glob_count
        /\ modules'[m].pub_count >= modules[m].pub_count
        /\ modules'[m].glob_count = modules[m].glob_count + RecordedGlobs(m)
        /\ modules'[m].pub_glob_count = modules[m].pub_glob_count + RecordedPublicGlobs(m)
        /\ modules'[m].pub_count = modules[m].pub_count + RecordedPublic(m)

\* C19: for every module, glob_count, pub_glob_count and pub_count never decrease in
\* any step of the builder; each grows by one for every import directive of its kind
\* that the step records on that module (a glob, a public glob, a public directive),
\* and stays as it is when the step records no directive on the module.
C19_CountersGrowWithDirectives == [][CountersStep]_vars

\* a public glob and a public single import were recorded on one module
C19_Witness ==
    /\ JustVisited("ItemUse")
    /\ \E m \in ModuleIds :
          /\ Len(modules[m].imports) = 2
          /\ modules[m].glob_count = 1
          /\ modules[m].pub_glob_count = 1
          /\ modules[m].pub_count = 2

(***************************************************************************)
(* Local items: modifiers and diagnostics (checked under Spec).            *)
(***************************************************************************)
ValueItemKinds == {"ItemStatic", "ItemConst", "ItemFn"}
TypeItemKinds == {"ItemMod", "ItemTy", "ItemEnum", "ItemStruct"}

\* the modifiers of the bindings that the item just lowered installed in its cell: the
\* value slot of a static, const or fn, the type slot of a mod, type alias, enum or
\* struct, and also the value slot of a struct that is not a named-field struct
InstalledModifiers(item, cell) ==
    (IF item.node \in TypeItemKinds
     THEN { IF IsSome(cell.type_def) THEN Unwrap(cell.type_def).modifiers ELSE {} }
     ELSE {})
    \cup
    (IF item.node \in ValueItemKinds \/ (item.node = "ItemStruct" /\ ~item.is_struct)
     THEN { IF IsSome(cell.value_def) THEN Unwrap(cell.value_def).modifiers ELSE {} }
     ELSE {})

BindingFollowsVisibility(item, parent) ==
    /\ item.name \in DOMAIN modules[parent].children
    /\ \A modifiers \in InstalledModifiers(item, cells[modules[parent].children[item.name]]) :
          /\ (PUBLIC \in modifiers) <=> item.is_public
          /\ IMPORTABLE \in modifiers
    /\ item.node = "ItemMod" =>
          modules[get_module(World, modules[parent].children[item.name])].is_public
              = item.is_public

BindingsFollowVisibility ==
    (/\ calls # << >>
     /\ calls[1].op = "visit_item"
     /\ calls[1].item.node \in ValueItemKinds \cup TypeItemKinds)
        => BindingFollowsVisibility(calls[1].item, calls[1].parent)

\* the names a module has given away: those of its children and of its extern crates
TakenNames(m) ==
    DOMAIN modules[m].children \cup DOMAIN modules[m].external_module_children

Distinct(seq) ==
    \A i, j \in DOMAIN seq : i # j => seq[i].name # seq[j].name

\* the item of the step has a name that no item of its module has
FreshName(item, parent) ==
    item.node \in NamedItemKinds \cup {"ItemExternCrate"} => item.name \notin TakenNames(parent)

\* the same of the names inside the item: those of an enum's variants, of a trait's
\* items and of the foreign items, which are bound in the module of the foreign mod
FreshNamesInside(item, parent) ==
    /\ item.node = "ItemEnum" => Distinct(item.variants)
    /\ item.node = "ItemTrait" => Distinct(item.items)
    /\ item.node = "ItemForeignMod" =>
          /\ Distinct(item.items)
          /\ \A i \in DOMAIN item.items : item.items[i].name \notin TakenNames(parent)

\* a `use` item that names `self` only in a list, at most once, after a non-empty prefix
SelfWellPlaced(item) ==
    item.node = "ItemUse" =>
        CASE item.view_path.tag = "ViewPathSimple" -> Last(item.view_path.path) # "self"
          [] item.view_path.tag = "ViewPathList" ->
                /\ Cardinality(SelfEntries(item.view_path.items)) <= 1
                /\ SelfEntries(item.view_path.items) # {} => item.view_path.path # << >>
          [] OTHER -> TRUE

LowersItem == nitems' = nitems + 1

DistinctNamesStep ==
    (LowersItem /\ FreshName(calls'[1].item, calls'[1].parent)) => NewDiags = << >>

DistinctNamesInsideStep ==
    (/\ LowersItem
     /\ FreshName(calls'[1].item, calls'[1].parent)
     /\ FreshNamesInside(calls'[1].item, calls'[1].parent)
     /\ SelfWellPlaced(calls'[1].item)) => NewDiags = << >>

TraitItemDef(t, trait_item) ==
    CASE trait_item.kind = "ConstTraitItem" -> DefAssociatedConst(local_def_id(trait_item.id))
      [] trait_item.kind = "MethodTraitItem" -> DefMethod(local_def_id(trait_item.id))
      [] trait_item.kind = "TypeTraitItem" ->
             DefAssociatedTy(local_def_id(t.id), local_def_id(trait_item.id))

TraitItemNs(trait_item) == IF trait_item.kind = "TypeTraitItem" THEN TypeNS ELSE ValueNS

TraitItemBound(cell, t, trait_item) ==
    IF TraitItemNs(trait_item) = TypeNS
    THEN /\ IsSome(cell.type_def)
         /\ Unwrap(cell.type_def).type_def = Some(TraitItemDef(t, trait_item))
         /\ Unwrap(cell.type_def).modifiers = {PUBLIC}
    ELSE /\ IsSome(cell.value_def)
         /\ Unwrap(cell.value_def).def = TraitItemDef(t, trait_item)
         /\ Unwrap(cell.value_def).modifiers = {PUBLIC}

\* the cell of trait t in parent: Trait(def_id) beside a module of kind Trait
TraitCellBound(t, parent) ==
    /\ t.name \in DOMAIN modules[parent].children
    /\ LET cell == cells[modules[parent].children[t.name]] IN
       /\ IsSome(cell.type_def)
       /\ Unwrap(cell.type_def).type_def = Some(DefTrait(local_def_id(t.id)))
       /\ IsSome(Unwrap(cell.type_def).module_def)
       /\ modules[Unwrap(Unwrap(cell.type_def).module_def)].kind = TraitModuleKind
       /\ modules[Unwrap(Unwrap(cell.type_def).module_def)].def_id = Some(local_def_id(t.id))

TraitModuleOf(t, parent) == get_module(World, modules[parent].children[t.name])

\* every item of trait t has a cell of its own in the trait's module, bound to its def
\* with the modifiers PUBLIC, and trait_item_map holds its def id
EveryTraitItemBound(t, parent) ==
    /\ Cardinality(DOMAIN modules[TraitModuleOf(t, parent)].children) = Len(t.items)
    /\ \A i \in DOMAIN t.items :
          /\ t.items[i].name \in DOMAIN modules[TraitModuleOf(t, parent)].children
          /\ TraitItemBound(cells[modules[TraitModuleOf(t, parent)].children[t.items[i].name]],
                            t, t.items[i])
          /\ <<t.items[i].name, local_def_id(t.id)>> \in DOMAIN trait_item_map
          /\ trait_item_map[<<t.items[i].name, local_def_id(t.id)>>]
                = local_def_id(t.items[i].id)

\* item i is the last item of its name, and the last of its name in its namespace
LastOfName(items, i) ==
    \A j \in DOMAIN items : j > i => items[j].name # items[i].name
LastInSlot(items, i) ==
    \A j \in DOMAIN items :
        j > i => ~(items[j].name = items[i].name
                   /\ TraitItemNs(items[j]) = TraitItemNs(items[i]))

\* the same with one cell per name: a slot holds the last item of its name and
\* namespace, trait_item_map the def id of the last item of the name
LastTraitItemBound(t, parent) ==
    /\ DOMAIN modules[TraitModuleOf(t, parent)].children
          = { t.items[i].name : i \in DOMAIN t.items }
    /\ \A i \in DOMAIN t.items :
          /\ LastInSlot(t.items, i) =>
                TraitItemBound(cells[modules[TraitModuleOf(t, parent)].children[t.items[i].name]],
                               t, t.items[i])
          /\ <<t.items[i].name, local_def_id(t.id)>> \in DOMAIN trait_item_map
          /\ LastOfName(t.items, i) =>
                trait_item_map[<<t.items[i].name, local_def_id(t.id)>>]
                    = local_def_id(t.items[i].id)

\* C21: after a local trait T is processed, the cell for T has its type slot bound to
\* Trait(def_id of T) together with a companion module of kind Trait; that module has
\* one cell per trait item (methods and associated consts in the value slot,
\* associated types in the type slot) with modifiers exactly PUBLIC; and
\* trait_item_map[(item name, def_id of T)] equals the item's def id for every trait
\* item.
C21_TraitItemsBound ==
    JustVisited("ItemTrait") =>
        /\ TraitCellBound(calls[1].item, calls[1].parent)
        /\ EveryTraitItemBound(calls[1].item, calls[1].parent)

\* C21 for items that may share a name: the cell of T as above; the module of T has
\* one cell per name of a trait item; each slot holds, with modifiers exactly PUBLIC,
\* the last item of that name and namespace; and trait_item_map[(name, def_id of T)]
\* is the def id of the last item of that name.  For items of pairwise distinct names
\* this is the statement of C21.
C21_LastTraitItemsBound ==
    JustVisited("ItemTrait") =>
        /\ TraitCellBound(calls[1].item, calls[1].parent)
        /\ LastTraitItemBound(calls[1].item, calls[1].parent)
        /\ Distinct(calls[1].item.items) =>
              EveryTraitItemBound(calls[1].item, calls[1].parent)

\* a trait with an associated const and an associated type of different names was
\* lowered inside a module, after an item of the trait's name
C21_Witness ==
    /\ JustVisited("ItemTrait")
    /\ nitems = 2
    /\ Distinct(calls[1].item.items)
    /\ TraitCellBound(calls[1].item, calls[1].parent)
    /\ EveryTraitItemBound(calls[1].item, calls[1].parent)
    /\ Cardinality(DOMAIN trait_item_map) = 2

(***************************************************************************)
(* A module and a struct of one name (checked under Spec).                 *)
(***************************************************************************)
\* the type slot of the cell holds a struct and no module; it holds a module and no
\* other type
HoldsStruct(cell) ==
    /\ IsSome(cell.type_def)
    /\ IsSome(Unwrap(cell.type_def).type_def)
    /\ Unwrap(Unwrap(cell.type_def).type_def).tag = "Ty"
    /\ IsNone(Unwrap(cell.type_def).module_def)
HoldsModuleOnly(cell) ==
    /\ IsSome(cell.type_def)
    /\ IsNone(Unwrap(cell.type_def).type_def)
    /\ IsSome(Unwrap(cell.type_def).module_def)

\* before the step the name of the item had a type binding of the opposite kind in the
\* item's parent
OppositeKindClash(item, parent) ==
    /\ item.node \in {"ItemMod", "ItemStruct"}
    /\ item.name \in DOMAIN modules[parent].children
    /\ IF item.node = "ItemMod"
       THEN HoldsStruct(cells[modules[parent].children[item.name]])
       ELSE HoldsModuleOnly(cells[modules[parent].children[item.name]])

StepWarnings ==
    { d \in DOMAIN NewDiags :
        NewDiags[d].level = "warning" /\ NewDiags[d].msg = "DuplicateDefinitionModuleAndStruct" }
StepDuplicateErrors ==
    { d \in DOMAIN NewDiags :
        NewDiags[d].level = "error" /\ NewDiags[d].msg = "DuplicateDefinition" }

WarnedNotRejected == StepWarnings # {} /\ StepDuplicateErrors = {}

ClashStep ==
    (LowersItem /\ OppositeKindClash(calls'[1].item, calls'[1].parent)) => WarnedNotRejected

\* C22: when a `mod` item or a struct item is processed and its name already has a
\* type binding of the opposite kind in the same parent (a struct for the mod, a module
\* for the struct), the builder emits a deprecation warning and no DuplicateDefinition
\* error for that item, in either source order and for structs with named fields as
\* well as tuple and unit structs.
C22_ModuleStructClashWarns == [][ClashStep]_vars

\* a struct with named fields that follows a module of its name
NamedStructAfterModule(item) == item.node = "ItemStruct" /\ item.is_struct

\* the value slot of the name is taken when a tuple or unit struct is lowered
ValueTaken(item, parent) ==
    /\ item.node = "ItemStruct"
    /\ IsSome(cells[modules[parent].children[item.name]].value_def)

ClashStepButNamedStruct ==
    (/\ LowersItem
     /\ OppositeKindClash(calls'[1].item, calls'[1].parent)
     /\ ~NamedStructAfterModule(calls'[1].item)
     /\ ~ValueTaken(calls'[1].item, calls'[1].parent)) => WarnedNotRejected

NamedStructStep ==
    (/\ LowersItem
     /\ OppositeKindClash(calls'[1].item, calls'[1].parent)
     /\ NamedStructAfterModule(calls'[1].item))
        => StepWarnings = {} /\ StepDuplicateErrors # {}

\* what holds of C22: a mod after a struct of any kind, and a tuple or unit struct
\* after a module whose name has no value, get the warning and no error; a struct with
\* named fields after a module gets the error and no warning
C22_ClashWarnsButNamedStructAfterModule ==
    [][ClashStepButNamedStruct /\ NamedStructStep]_vars

(***************************************************************************)
(* impl items (checked under Spec).                                        *)
(***************************************************************************)
LowersImpl == LowersItem /\ calls'[1].item.node \in {"ItemImpl", "ItemDefaultImpl"}

ImplStep == LowersImpl => (modules' = modules /\ cells' = cells)

\* C23: processing an impl or default-impl item leaves the reduced graph unchanged:
\* no binding is added, and the builder does not recurse into the item, so no module
\* (including an anonymous module for an item-bearing block inside one of its
\* methods) and no import directive is created on its behalf.
C23_ImplLeavesGraphUnchanged == [][ImplStep]_vars

\* the bodies of the methods of the impl that declare an item
ItemBearingBodies(item) ==
    { i \in DOMAIN item.methods : DeclaresItem(item.methods[i]) }

ImplStepButBlocks ==
    LowersImpl =>
        /\ cells' = cells
        /\ \A m \in ModuleIds :
              /\ modules'[m].children = modules[m].children
              /\ modules'[m].imports = modules[m].imports
              /\ modules'[m].external_module_children = modules[m].external_module_children
        /\ IF ItemBearingBodies(calls'[1].item) = {}
           THEN modules' = modules /\ parents' = parents
           ELSE AnonymousModuleMade(calls'[1].item.methods[1], calls'[1].parent)

\* what holds of C23: an impl adds no binding and no import directive and touches no
\* module's children; the only module made on its behalf is the anonymous module of an
\* item-bearing block of one of its methods
C23_ImplAddsOnlyBlockModules == [][ImplStepButBlocks]_vars

\* an impl whose method declares an item was lowered inside a module: the method's
\* block has its anonymous module there, and the visitor is in it
C23_Witness ==
    /\ JustVisited("ItemImpl")
    /\ calls[1].parent # 1
    /\ ItemBearingBodies(calls[1].item) # {}
    /\ calls[1].item.methods[1].id \in DOMAIN modules[calls[1].parent].anonymous_children
    /\ current_parent
          = modules[calls[1].parent].anonymous_children[calls[1].item.methods[1].id]
    /\ modules[current_parent].kind = AnonymousModuleKind
    /\ modules[calls[1].parent].children = EmptyMap

(***************************************************************************)
(* Local foreign mods (checked under Spec).                                *)
(***************************************************************************)
ForeignItemDef(foreign_item) ==
    IF foreign_item.kind = "ForeignItemFn"
    THEN DefFn(local_def_id(foreign_item.id), FALSE)
    ELSE DefStatic(local_def_id(foreign_item.id), foreign_item.mutbl)

ForeignNames(item) == { item.items[i].name : i \in DOMAIN item.items }

\* the step asked add_child for the foreign item in module p with ForbidDuplicateValues
AddedForbiddingValues(foreign_item, p) ==
    \E k \in DOMAIN calls' :
        /\ calls'[k].op = "add_child"
        /\ calls'[k].name = foreign_item.name
        /\ calls'[k].parent = p
        /\ calls'[k].span = foreign_item.id
        /\ calls'[k].mode = "ForbidDuplicateValues"

\* after the step the value slot of the name in p holds the foreign item, and the type
\* slot what it held
ForeignItemBound(foreign_item, p) ==
    /\ foreign_item.name \in DOMAIN modules'[p].children
    /\ LET cell == cells'[modules'[p].children[foreign_item.name]] IN
       /\ IsSome(cell.value_def)
       /\ Unwrap(cell.value_def).def = ForeignItemDef(foreign_item)
       /\ (PUBLIC \in Unwrap(cell.value_def).modifiers) <=> foreign_item.is_public
       /\ IMPORTABLE \in Unwrap(cell.value_def).modifiers
       /\ cell.type_def =
             IF foreign_item.name \in DOMAIN modules[p].children
             THEN cells[modules[p].children[foreign_item.name]].type_def
             ELSE None

\* the foreign mod itself got no module and no cell: the modules are the same but for
\* the children of p, and the new cells are those of the new names of foreign items
NothingForForeignMod(item, p) ==
    /\ Len(modules') = Len(modules)
    /\ parents' = parents
    /\ \A m \in ModuleIds : modules'[m] = [modules[m] EXCEPT !.children = modules'[m].children]
    /\ \A m \in ModuleIds \ {p} : modules'[m].children = modules[m].children
    /\ DOMAIN modules'[p].children = DOMAIN modules[p].children \cup ForeignNames(item)
    /\ Len(cells') = Len(cells)
          + Cardinality(ForeignNames(item) \ DOMAIN modules[p].children)

ForeignModStep ==
    Visits("ItemForeignMod") =>
        /\ calls'[1].parent = current_parent
        /\ NothingForForeignMod(calls'[1].item, current_parent)
        /\ \A i \in DOMAIN calls'[1].item.items :
              /\ AddedForbiddingValues(calls'[1].item.items[i], current_parent)
              /\ LastOfName(calls'[1].item.items, i) =>
                    ForeignItemBound(calls'[1].item.items[i], current_parent)

LastSingleDirective(m, b) ==
    CHOOSE i \in SingleDirectives(m, b) : \A j \in SingleDirectives(m, b) : j <= i

LastWriterWins ==
    \A m \in ModuleIds : \A b \in SingleTargets(m) :
        /\ b \in DOMAIN modules[m].import_resolutions
        /\ modules[m].import_resolutions[b].type_id
              = modules[m].imports[LastSingleDirective(m, b)].id
        /\ modules[m].import_resolutions[b].value_id
              = modules[m].imports[LastSingleDirective(m, b)].id
        /\ modules[m].import_resolutions[b].is_public
              = modules[m].imports[LastSingleDirective(m, b)].is_public

\* the single imports binding b that the step recorded on m
RecordedSingles(m, b) ==
    { i \in DOMAIN NewImports(m) :
        /\ NewImports(m)[i].subclass.tag = "SingleImport"
        /\ NewImports(m)[i].subclass.target = b }

\* a step keeps every entry, and an entry kept is the one that was there: its count
\* grows by the directives recorded for it and is not set back
EntriesKept ==
    \A m \in ModuleIds : \A b \in DOMAIN modules[m].import_resolutions :
        /\ b \in DOMAIN modules'[m].import_resolutions
        /\ modules'[m].import_resolutions[b].outstanding_references
              = modules[m].import_resolutions[b].outstanding_references
                  + Cardinality(RecordedSingles(m, b))
        /\ RecordedSingles(m, b) = {} =>
              modules'[m].import_resolutions[b] = modules[m].import_resolutions[b]

\* C25: after any sequence of Single directives recorded on a module,
\* import_resolutions[b].type_id and value_id equal the node id, and is_public equals
\* the publicity, of the most recently recorded directive whose binding is b (last
\* writer wins), while the entry itself is never removed or re-created.
C25_LastWriterWins == []LastWriterWins /\ [][EntriesKept]_vars

\* a module has two single imports of one binding, the first private and the second
\* public: the entry carries the id and the publicity of the second
C25_Witness ==
    \E m \in ModuleIds : \E b \in SingleTargets(m) :
        /\ Cardinality(SingleDirectives(m, b)) = 2
        /\ \E i \in SingleDirectives(m, b) :
              /\ i # LastSingleDirective(m, b)
              /\ ~modules[m].imports[i].is_public
              /\ modules[m].imports[i].id # modules[m].imports[LastSingleDirective(m, b)].id
        /\ modules[m].import_resolutions[b].is_public
        /\ modules[m].import_resolutions[b].type_id
              = modules[m].imports[LastSingleDirective(m, b)].id
        /\ modules[m].import_resolutions[b].outstanding_references = 2

(***************************************************************************)
(* pub_count and unresolved_imports (checked under SpecUse).               *)
(***************************************************************************)
PublicDirectives(m) == { i \in DOMAIN modules[m].imports : modules[m].imports[i].is_public }

\* the number of directives in the imports of the modules 1..n
RECURSIVE DirectivesUpTo(_)
DirectivesUpTo(n) ==
    IF n = 0 THEN 0 ELSE Len(modules[n].imports) + DirectivesUpTo(n - 1)

CountsMatchDirectives ==
    /\ \A m \in ModuleIds : modules[m].pub_count = Cardinality(PublicDirectives(m))
    /\ unresolved_imports = DirectivesUpTo(Len(modules))

\* the entries of a list that are rejected before build_import_directive: `self` after
\* an empty prefix
RejectedEntries(view_path) ==
    IF view_path.tag = "ViewPathList" /\ view_path.path = << >>
    THEN SelfEntries(view_path.items)
    ELSE {}

\* a `use` list with rejected entries counts the other entries only
RejectedEntriesStep ==
    (Visits("ItemUse") /\ RejectedEntries(calls'[1].item.view_path) # {}) =>
        \E accepted \in { Len(calls'[1].item.view_path.items)
                             - Cardinality(RejectedEntries(calls'[1].item.view_path)) } :
            /\ unresolved_imports' = unresolved_imports + accepted
            /\ Len(NewImports(current_parent)) = accepted
            /\ modules'[current_parent].pub_count
                  = modules[current_parent].pub_count
                      + IF calls'[1].item.is_public THEN accepted ELSE 0
            /\ \A m \in ModuleIds \ {current_parent} :
                  modules'[m].pub_count = modules[m].pub_count

\* C26: after any sequence of builder operations, each module's pub_count equals the
\* number of public directives (Single or Glob) in its imports, and the increase of the
\* resolver-wide unresolved_imports counter since the build started equals the total
\* number of directives appended to the imports of all modules; a use entry rejected
\* before build_import_directive changes neither.
C26_PubCountAndUnresolvedImports ==
    []CountsMatchDirectives /\ [][RejectedEntriesStep]_vars

\* a public list `{self, b as a}` without prefix was lowered after a private import in
\* the same module: one entry was rejected, two directives are recorded in all
C26_Witness ==
    /\ JustVisited("ItemUse")
    /\ calls[1].item.is_public
    /\ RejectedEntries(calls[1].item.view_path) # {}
    /\ IdentEntries(calls[1].item.view_path.items) # {}
    /\ unresolved_imports = 2
    /\ Len(modules[calls[1].parent].imports) = 2
    /\ modules[calls[1].parent].pub_count = 1

(***************************************************************************)
(* The children of external modules (checked under SpecExt).               *)
(***************************************************************************)
StoreQueries ==
    { k \in DOMAIN calls :
        calls[k].op \in {"each_child_of_item", "each_top_level_item_of_crate"} }

\* the module whose children are being added when query k is made: the module of the
\* query, or for the query of a foreign mod that of the query around it
RECURSIVE ParentOfQuery(_)
ParentOfQuery(k) ==
    IF calls[k].module # 0 THEN calls[k].module
    ELSE ParentOfQuery(CHOOSE j \in StoreQueries : j < k /\ \A i \in StoreQueries : i < k => i <= j)

\* the children the store reports to query k that are Defs and no foreign mods
DefChildren(k) ==
    { i \in DOMAIN each_child_of_item(calls[k].def_id) :
        /\ each_child_of_item(calls[k].def_id)[i].def_like = "DlDef"
        /\ each_child_of_item(calls[k].def_id)[i].def.tag # "ForeignMod" }

\* after query k the child was added under its name to module p with
\* OverwriteDuplicates, and handled with p as the module it is judged against
AddedToParent(k, child, p) ==
    /\ \E j \in DOMAIN calls :
          /\ j > k
          /\ calls[j].op = "add_child"
          /\ calls[j].name = child.name
          /\ calls[j].parent = p
          /\ calls[j].mode = "OverwriteDuplicates"
    /\ child.name \in DOMAIN modules[p].children
    /\ child.def.tag # "Local" =>
          \E j \in DOMAIN calls :
              /\ j > k
              /\ calls[j].op = "handle_external_def"
              /\ calls[j].def_id = child.def.def_id
              /\ calls[j].is_public = child.is_public
              /\ calls[j].parent_def = modules[p].def_id

\* nothing stands for the foreign mod of query k: no module, no cell, no call
NoCellOfItsOwn(k) ==
    /\ \A m \in ModuleIds : modules[m].def_id # Some(calls[k].def_id)
    /\ \A c \in DOMAIN cells :
          /\ IsSome(cells[c].value_def) => Unwrap(cells[c].value_def).def.tag # "ForeignMod"
          /\ (IsSome(cells[c].type_def) /\ IsSome(Unwrap(cells[c].type_def).type_def))
                => Unwrap(Unwrap(cells[c].type_def).type_def).tag # "ForeignMod"
    /\ \A j \in DOMAIN calls :
          calls[j].op = "handle_external_def" => calls[j].def_id # calls[k].def_id

ExternalChildrenAdded ==
    /\ \A k \in StoreQueries :
          /\ calls[k].module = 0 => NoCellOfItsOwn(k)
          /\ ~aborted =>
                \A i \in DefChildren(k) :
                    AddedToParent(k, each_child_of_item(calls[k].def_id)[i], ParentOfQuery(k))
    /\ StoreQueries # {} =>
          \A j \in AddChildCalls :
              /\ calls[j].mode = "OverwriteDuplicates"
              /\ calls[j].span = DUMMY_SP
              /\ calls[j].emitted = << >>
    /\ (StoreQueries # {} /\ ~aborted) =>
          Cardinality(AddChildCalls)
              = Cardinality(UNION { {q} \X DefChildren(q) : q \in StoreQueries })

PopulationStep == Visits("ItemExternCrate") \/ npopulates' = npopulates + 1

NoDuplicateErrorStep == PopulationStep => StepDuplicateErrors = {}

\* C27: during external population a ForeignMod child produces no cell of its own:
\* its children, obtained from the crate store, are added as children of the same
\* external parent module, and their exportedness is judged against that parent;
\* every other Def child is added under its name with the Overwrite policy, so
\* external population never emits a DuplicateDefinition error.
C27_ExternalChildrenOverwrite ==
    []ExternalChildrenAdded /\ [][NoDuplicateErrorStep]_vars

\* crate 1 was attached: the fn c of its foreign mod is a child of the crate's root,
\* exported as a public child of the root, and the static a of the foreign mod shares
\* the cell of the module a
C27_Witness ==
    /\ JustVisited("ItemExternCrate")
    /\ \E k \in StoreQueries :
          /\ calls[k].module = 0
          /\ calls[k].def_id = MkDefId(1, 3)
          /\ ParentOfQuery(k) # 0
          /\ modules[ParentOfQuery(k)].def_id = Some(MkDefId(1, CRATE_DEF_INDEX))
          /\ DOMAIN modules[ParentOfQuery(k)].children = {"a", "b", "c"}
          /\ LET cell == cells[modules[ParentOfQuery(k)].children["a"]] IN
             /\ IsSome(cell.value_def)
             /\ Unwrap(cell.value_def).def.def_id = MkDefId(1, 32)
             /\ IsSome(cell.type_def)
    /\ MkDefId(1, 31) \in external_exports
    /\ MkDefId(1, 32) \notin external_exports
    /\ diags = << >>


(***************************************************************************)
(* C28: the module of an external Mod, ForeignMod, Struct or Ty def.       *)
(***************************************************************************)
ModuleBearingDefs == {"Mod", "ForeignMod", "Struct", "Ty"}

ModuleBearingCalls ==
    { r \in HandledExternalDefs : r.def.tag \in ModuleBearingDefs }

\* the kind the claim gives to a fresh module of the def
ClaimedKind(def) ==
    IF def.tag = "Ty" /\ def.flag THEN "Enum"
    ELSE IF def.tag \in {"Ty", "Struct"} THEN "Type"
    ELSE "Normal"

\* the cell held a module, and holds the same one with another def_id only
ModuleKept(r) ==
    /\ IsSome(r.held_after)
    /\ Unwrap(r.held_after).id = Unwrap(r.held_before).id
    /\ Unwrap(r.held_after).module =
           [Unwrap(r.held_before).module EXCEPT !.def_id = Some(r.def.def_id)]
    /\ Unwrap(r.held_after).module.children = Unwrap(r.held_before).module.children
    /\ Unwrap(r.held_after).module.kind = Unwrap(r.held_before).module.kind
    /\ Unwrap(r.held_after).module.populated = Unwrap(r.held_before).module.populated

\* the cell held no module, and holds a fresh external one of the claimed kind
ModuleDefinedFresh(r) ==
    /\ IsSome(r.held_after)
    /\ Unwrap(r.held_after).id > r.modules_before
    /\ Unwrap(r.held_after).module.is_external
    /\ Unwrap(r.held_after).module.def_id = Some(r.def.def_id)
    /\ Unwrap(r.held_after).module.kind = ClaimedKind(r.def)
    /\ Unwrap(r.held_after).module.children = << >>
    /\ ~Unwrap(r.held_after).module.populated

\* C28: when handle_external_def handles a Mod, ForeignMod, Struct or Ty def for a
\* cell that holds a module, the cell keeps that module, with its children, kind and
\* populated flag, and only the module's def_id becomes the def's; when the cell holds
\* no module, it gets a fresh external module of kind Enum for Ty(_, true), Type for
\* the other Ty and Struct, and Normal otherwise
C28_ExistingModuleKeptFreshModuleKind ==
    \A r \in ModuleBearingCalls :
        IF IsSome(r.held_before) THEN ModuleKept(r) ELSE ModuleDefinedFresh(r)

\* an enum def was handled for a cell that held a normal module under another def id,
\* and in the same population a struct def got a fresh module
C28_Witness ==
    /\ \E r \in ModuleBearingCalls :
           /\ IsSome(r.held_before)
           /\ r.def.tag = "Ty" /\ r.def.flag
           /\ Unwrap(r.held_before).module.kind = "Normal"
           /\ Unwrap(r.held_before).module.def_id # Some(r.def.def_id)
           /\ Unwrap(r.held_after).module.kind = "Normal"
    /\ \E r \in ModuleBearingCalls :
           /\ IsNone(r.held_before)
           /\ r.def.tag = "Mod"
           /\ Unwrap(r.held_after).module.kind = "Normal"

(***************************************************************************)
(* C29: external enum variants.                                            *)
(***************************************************************************)
VariantCalls == { r \in HandledExternalDefs : r.def.tag = "Variant" }

\* the type slot of the cell is bound to the def, and nothing else of the cell changed
OnlyTypeSlotBound(r) ==
    /\ IsSome(r.cell_after.type_def)
    /\ Unwrap(r.cell_after.type_def).type_def = Some(r.def)
    /\ Unwrap(r.cell_after.type_def).modifiers = {PUBLIC, IMPORTABLE}
    /\ Unwrap(r.cell_after.type_def).module_def =
           IF IsSome(r.cell_before.type_def)
           THEN Unwrap(r.cell_before.type_def).module_def ELSE None
    /\ r.cell_after.value_def = r.cell_before.value_def

\* the value slot of the cell is bound to the def, and nothing else of the cell changed
OnlyValueSlotBound(r) ==
    /\ IsSome(r.cell_after.value_def)
    /\ Unwrap(r.cell_after.value_def).def = r.def
    /\ Unwrap(r.cell_after.value_def).modifiers = {PUBLIC, IMPORTABLE}
    /\ r.cell_after.type_def = r.cell_before.type_def

EmptyFieldListInserted(r) ==
    /\ r.def.def_id \in DOMAIN r.structs_after
    /\ r.structs_after[r.def.def_id] = << >>

\* C29: for an external Variant(enum, var, is_struct_variant) def, handle_external_def
\* binds exactly one slot of the cell, the type slot when is_struct_variant is true and
\* the value slot otherwise, with modifiers PUBLIC | IMPORTABLE whatever the reported
\* visibility and the kind of the containing module, and for a struct variant it also
\* inserts an empty field list for var into structs
C29_VariantBindsOneSlotPublicImportable ==
    \A r \in VariantCalls :
        IF r.def.flag
        THEN OnlyTypeSlotBound(r) /\ EmptyFieldListInserted(r)
        ELSE OnlyValueSlotBound(r)

\* in a module that is no enum module, a variant reported private was bound in the
\* value slot, and a struct variant of the same name then in the type slot of that
\* cell, next to a field list that structs did not hold before
C29_Witness ==
    \E r1, r2 \in VariantCalls :
        /\ ~r1.def.flag /\ ~r1.is_public
        /\ modules[r1.new_parent].kind # EnumModuleKind
        /\ PUBLIC \in Unwrap(r1.cell_after.value_def).modifiers
        /\ r2.def.flag /\ r2.new_parent = r1.new_parent /\ r2.name = r1.name
        /\ r2.cell_before.value_def = r1.cell_after.value_def
        /\ IsSome(r2.cell_after.type_def)
        /\ r2.def.def_id \notin DOMAIN r2.structs_before
        /\ r2.def.def_id \in DOMAIN structs

(***************************************************************************)
(* C30: external tuple-struct constructors.                                *)
(***************************************************************************)
CtorCalls == { r \in HandledExternalDefs : r.def.tag = "Fn" /\ r.def.flag }

\* the def the claim puts in the value slot for a constructor fn
ClaimedCtorDef(def) ==
    IF IsSome(get_tuple_struct_definition_if_ctor(def.def_id))
    THEN DefStruct(def.def_id)
    ELSE def

\* C30: for an external Fn(ctor, true) def, the value slot is bound to Struct(ctor)
\* when the crate store reports a tuple-struct definition for ctor and to the unchanged
\* Fn(ctor, true) when it reports none, and in both cases the def binds no type slot
C30_CtorBoundAsStructOrFn ==
    \A r \in CtorCalls :
        /\ IsSome(r.cell_after.value_def)
        /\ Unwrap(r.cell_after.value_def).def = ClaimedCtorDef(r.def)
        /\ r.cell_after.type_def = r.cell_before.type_def

\* one population handled a constructor the store knows, bound as a struct next to the
\* type the cell held, and a constructor the store does not know, bound as the fn it
\* is in a cell without a type
C30_Witness ==
    \E r1, r2 \in CtorCalls :
        /\ IsSome(get_tuple_struct_definition_if_ctor(r1.def.def_id))
        /\ Unwrap(r1.cell_after.value_def).def.tag = "Struct"
        /\ Unwrap(r1.cell_after.value_def).def.def_id = r1.def.def_id
        /\ IsSome(r1.cell_before.type_def) /\ IsSome(r1.cell_after.type_def)
        /\ IsNone(get_tuple_struct_definition_if_ctor(r2.def.def_id))
        /\ Unwrap(r2.cell_after.value_def).def.tag = "Fn"
        /\ Unwrap(r2.cell_after.value_def).def.flag
        /\ IsNone(r2.cell_after.type_def)

(***************************************************************************)
(* C31: IMPORTABLE on external values and types.                           *)
(***************************************************************************)
PlainValueDefs == {"Static", "Const", "AssociatedConst", "Method"}

PlainValueCalls ==
    { r \in HandledExternalDefs :
        \/ r.def.tag = "Fn" /\ ~r.def.flag
        \/ r.def.tag \in PlainValueDefs }

PlainTypeCalls == { r \in HandledExternalDefs : r.def.tag \in {"Ty", "AssociatedTy"} }

\* the cell had no value binding, or one with IMPORTABLE set
ValueImportableBefore(r) ==
    \/ IsNone(r.cell_before.value_def)
    \/ IMPORTABLE \in Unwrap(r.cell_before.value_def).modifiers

ValueImportableAsClaimed(r) ==
    /\ IsSome(r.cell_after.value_def)
    /\ Unwrap(r.cell_after.value_def).def = r.def
    /\ IMPORTABLE \in Unwrap(r.cell_after.value_def).modifiers
           <=> (r.parent_kind = NormalModuleKind /\ ValueImportableBefore(r))

TypeImportableAsClaimed(r) ==
    /\ IsSome(r.cell_after.type_def)
    /\ Unwrap(r.cell_after.type_def).type_def = Some(r.def)
    /\ IMPORTABLE \in Unwrap(r.cell_after.type_def).modifiers
           <=> r.parent_kind = NormalModuleKind

\* C31: for an external Fn(_, false), Static, Const, AssociatedConst or Method def the
\* new value binding has IMPORTABLE set iff the containing external module is of kind
\* Normal and the cell had no value binding before or its previous value binding had
\* IMPORTABLE set; for an external Ty or AssociatedTy def the type binding has
\* IMPORTABLE set iff the containing module is of kind Normal
C31_ImportableOfExternalValuesAndTypes ==
    /\ \A r \in PlainValueCalls : ValueImportableAsClaimed(r)
    /\ \A r \in PlainTypeCalls : TypeImportableAsClaimed(r)

\* a const took the value slot of a variant in an enum module and lost IMPORTABLE
C31_Witness ==
    \E r \in PlainValueCalls :
        /\ r.parent_kind = EnumModuleKind
        /\ IsSome(r.cell_before.value_def)
        /\ IMPORTABLE \in Unwrap(r.cell_before.value_def).modifiers
        /\ IMPORTABLE \notin Unwrap(r.cell_after.value_def).modifiers

\* a further case that is reached: a static took the value slot of a variant in a
\* normal module and kept IMPORTABLE
C31_ValueKeepsImportable ==
    \E r \in PlainValueCalls :
        /\ r.parent_kind = NormalModuleKind
        /\ IsSome(r.cell_before.value_def)
        /\ IMPORTABLE \in Unwrap(r.cell_after.value_def).modifiers

\* a further case that is reached: an associated type in a trait module without
\* IMPORTABLE
C31_TypeNotImportable ==
    \E r \in PlainTypeCalls :
        /\ r.parent_kind # NormalModuleKind
        /\ IMPORTABLE \notin Unwrap(r.cell_after.type_def).modifiers

(***************************************************************************)
(* C32: external structs.                                                  *)
(***************************************************************************)
StructCalls == { r \in HandledExternalDefs : r.def.tag = "Struct" }

StructTypeBound(r) ==
    /\ IsSome(r.cell_after.type_def)
    /\ Unwrap(r.cell_after.type_def).type_def = Some(r.def)

\* the value slot holds the def if the store reports no field, and what it held otherwise
StructValueBoundIfNoFields(r) ==
    IF get_struct_field_names(r.def.def_id) = << >>
    THEN /\ IsSome(r.cell_after.value_def)
         /\ Unwrap(r.cell_after.value_def).def = r.def
    ELSE r.cell_after.value_def = r.cell_before.value_def

StructFieldsRecorded(r) ==
    /\ r.def.def_id \in DOMAIN r.structs_after
    /\ r.structs_after[r.def.def_id] = get_struct_field_names(r.def.def_id)

\* C32: for an external Struct def, handle_external_def binds the type slot, binds the
\* value slot iff the crate store reports an empty field-name list for the struct, and
\* records the reported field names as structs[def_id]
C32_StructTypeValueAndFields ==
    \A r \in StructCalls :
        StructTypeBound(r) /\ StructValueBoundIfNoFields(r) /\ StructFieldsRecorded(r)

\* one population handled a struct without fields, bound in both slots, and a struct
\* with a field, bound in the type slot only, and structs holds the field lists of both
C32_Witness ==
    \E r1, r2 \in StructCalls :
        /\ get_struct_field_names(r1.def.def_id) = << >>
        /\ IsNone(r1.cell_before.value_def) /\ IsSome(r1.cell_after.value_def)
        /\ get_struct_field_names(r2.def.def_id) # << >>
        /\ IsSome(r2.cell_after.type_def) /\ IsNone(r2.cell_after.value_def)
        /\ structs[r1.def.def_id] = << >>
        /\ structs[r2.def.def_id] # << >>

(***************************************************************************)
(* C33: the only fatal outcome.                                            *)
(***************************************************************************)
UnexpectedDefs == {"Local", "PrimTy", "TyParam", "Use", "Upvar", "Label", "SelfTy"}

\* the step handled a def that is no module child
UnexpectedHandled == \E r \in HandledExternalDefs : r.def.tag \in UnexpectedDefs

UnexpectedDefAborts == UnexpectedHandled => aborted

\* a step that aborts the builder handled such a def
AbortOnlyByUnexpectedDef == (aborted' /\ ~aborted) => UnexpectedHandled'

C33_CollisionNotFatal ==
    /\ ~aborted
    /\ \E d \in DOMAIN diags : diags[d].msg = "ExternalCrateAlreadyImported"

C33_DuplicateNotFatal ==
    /\ ~aborted
    /\ \E d \in DOMAIN diags : diags[d].msg = "DuplicateDefinition"

(***************************************************************************)
(* C34: termination of the population (checked under SpecSteps).           *)
(***************************************************************************)
\* what is left to do for a child and for the children from the i-th on: one call for
\* a child, and for a foreign mod also the loop over its children and its return
RECURSIVE ChildWeight(_), ChildrenWeight(_, _)
ChildWeight(child) ==
    IF child.def_like = "DlDef" /\ child.def.tag = "ForeignMod"
    THEN 2 + ChildrenWeight(each_child_of_item(child.def.def_id), 1)
    ELSE 1

ChildrenWeight(children, i) ==
    IF i > Len(children) THEN 0
    ELSE ChildWeight(children[i]) + ChildrenWeight(children, i + 1)

RECURSIVE StackWeight(_, _)
StackWeight(stack, n) ==
    IF n = 0 THEN 0
    ELSE 1 + ChildrenWeight(stack[n].children, stack[n].i) + StackWeight(stack, n - 1)

\* every step of a population leaves less to do
LessToDo ==
    frames # << >> => StackWeight(frames', Len(frames')) < StackWeight(frames, Len(frames))

\* when the call returns or panics, it leaves what populate_module_if_necessary, taken
\* as one step, makes of the world the call was entered in
ReturnsAsOneCall ==
    (frames # << >> /\ frames' = << >>) =>
        Graph(World)' = Graph(populate_module_if_necessary(frames[1].entry, frames[1].root))

C34_InsideForeignMod == Len(frames) = 2

(***************************************************************************)
(* C35: the current parent (checked under Spec).                           *)
(***************************************************************************)
\* the saved parents are a path of the graph from the crate root to the current parent
StackIsGraphPath ==
    /\ parents[1] = 1
    /\ \A k \in 2..Len(parents) : modules[parents[k]].parent_link.parent = parents[k - 1]

BindingItemKinds ==
    {"ItemMod", "ItemStatic", "ItemConst", "ItemFn", "ItemTy", "ItemEnum", "ItemStruct",
     "ItemTrait"}

\* the block the walk of the item enters first, if it enters one
BodyOf(item) ==
    IF item.node = "ItemFn" THEN Some(item.body)
    ELSE IF item.node = "ItemImpl" /\ item.methods # << >> THEN Some(item.methods[1])
    ELSE None

OpensBlockModule(item) == IsSome(BodyOf(item)) /\ DeclaresItem(Unwrap(BodyOf(item)))

\* the item is bound in the module that is the current parent when it is visited
BoundInCurrentParent ==
    (LowersItem /\ calls'[1].item.node \in BindingItemKinds) =>
        calls'[1].item.name \in DOMAIN modules'[current_parent].children

\* the items nested in a `mod` item have the module of that item for their parent
ModEntered ==
    (LowersItem /\ calls'[1].item.node = "ItemMod") =>
        /\ Len(parents') = Len(parents) + 1
        /\ SubSeq(parents', 1, Len(parents)) = parents
        /\ Some(parents'[Len(parents')]) =
               get_module_if_available(
                   cells'[modules'[current_parent].children[calls'[1].item.name]])
        /\ modules'[parents'[Len(parents')]].parent_link =
               ModuleParentLink(current_parent, calls'[1].item.name)

\* the items of a block that declares items have the block's module for their parent
BlockEntered ==
    (LowersItem /\ OpensBlockModule(calls'[1].item)) =>
        /\ Len(parents') = Len(parents) + 1
        /\ SubSeq(parents', 1, Len(parents)) = parents
        /\ modules'[parents'[Len(parents')]].parent_link =
               BlockParentLink(current_parent, Unwrap(BodyOf(calls'[1].item)).id)

\* any other item leaves the current parent to the item that follows it
SiblingsShareParent ==
    (/\ LowersItem
     /\ calls'[1].item.node # "ItemMod"
     /\ ~OpensBlockModule(calls'[1].item)) => parents' = parents

\* the return from an item or a block makes the module that holds the module left
\* the current parent again
ReturnRestoresParent ==
    Len(parents') < Len(parents) =>
        /\ parents' = SubSeq(parents, 1, Len(parents) - 1)
        /\ parents'[Len(parents')] = modules[current_parent].parent_link.parent

\* C35: the current parent follows a stack discipline: when visit_item or visit_block
\* returns, the current parent is the module it was before the call, so sibling items
\* are bound in one and the same module, the items nested in a `mod` item are bound in
\* that item's module, and the current parent is the crate root when the walk ends
C35_ParentStackDiscipline ==
    /\ []StackIsGraphPath
    /\ [][/\ BoundInCurrentParent
          /\ ModEntered
          /\ BlockEntered
          /\ SiblingsShareParent
          /\ ReturnRestoresParent]_vars

\* a `mod` item was walked with an item inside it and the visitor is back: the nested
\* item is bound in the module of the `mod` item and not in the crate root, which is
\* the current parent again
C35_Witness ==
    /\ Len(walked) = 3
    /\ walked[1].ev = "item" /\ walked[1].item.node = "ItemMod"
    /\ walked[2].ev = "item" /\ walked[2].item.node \in BindingItemKinds
    /\ walked[3].ev = "leave"
    /\ walked[2].item.name \in DOMAIN modules[2].children
    /\ walked[2].item.name \notin DOMAIN modules[1].children
    /\ parents = << 1 >>

(***************************************************************************)
(* C36: the closing assertion of populate_module_if_necessary.             *)
(***************************************************************************)
\* the modules on which populate_external_module returns without setting the flag
UnpopulatedWithoutDefId ==
    { m \in ModuleIds : ~modules[m].populated /\ IsNone(modules[m].def_id) }

\* a call of populate_module_if_necessary leaves the module populated, unless
\* handle_external_def panicked on the way
PopulateLeavesPopulated ==
    IsPopulateStep => (modules'[PopulatedModule].populated \/ UnexpectedHandled')

\* C36: the closing assertion of populate_module_if_necessary never fails on a module
\* created by the builder: no module of the graph is unpopulated while having no
\* def_id, and every call returns with populated = true
C36_ClosingAssertionHolds ==
    /\ [](UnpopulatedWithoutDefId = {})
    /\ [][PopulateLeavesPopulated]_vars

\* the resolver called populate_module_if_necessary on the anonymous module of a
\* block, which has no def_id, and the call returned
C36_Witness ==
    /\ npopulates > 0
    /\ ~aborted
    /\ calls[Len(calls)].op = "populate_module_if_necessary"
    /\ modules[calls[Len(calls)].module].kind = AnonymousModuleKind
    /\ modules[calls[Len(calls)].module].def_id = None
    /\ modules[calls[Len(calls)].module].populated

\* a further case that is reached: the call populated an external module
C36_ExternalPopulated ==
    /\ npopulates > 0
    /\ ~aborted
    /\ Len(calls) > 1
    /\ calls[Len(calls)].op = "populate_module_if_necessary"
    /\ modules[calls[Len(calls)].module].is_external
    /\ modules[calls[Len(calls)].module].populated

(***************************************************************************)
(* C37: extern crates of one name (checked under SpecExt).                 *)
(***************************************************************************)
\* the step lowers an `extern crate` item bound to a crate, under a name that an
\* external crate attached to the current parent has
CollidingExternCrate ==
    /\ LowersItem
    /\ calls'[1].item.node = "ItemExternCrate"
    /\ IsSome(calls'[1].item.cnum)
    /\ calls'[1].item.name \in DOMAIN modules[current_parent].external_module_children

CollisionErrors(name) ==
    { d \in DOMAIN NewDiags :
        /\ NewDiags[d].level = "error"
        /\ NewDiags[d].msg = "ExternalCrateAlreadyImported"
        /\ NewDiags[d].name = name }

\* the module attached under the name before the step, and the one attached after it
EarlierCrate == modules[current_parent].external_module_children[calls'[1].item.name]
LaterCrate == modules'[current_parent].external_module_children[calls'[1].item.name]

CollisionReportedAndReplaced ==
    CollidingExternCrate =>
        /\ Cardinality(CollisionErrors(calls'[1].item.name)) = 1
        /\ ~aborted'
        /\ LaterCrate > Len(modules)
        /\ modules'[LaterCrate].def_id =
               Some(MkDefId(Unwrap(calls'[1].item.cnum), CRATE_DEF_INDEX))
        /\ modules'[LaterCrate].parent_link =
               ModuleParentLink(current_parent, calls'[1].item.name)
        /\ MkDefId(Unwrap(calls'[1].item.cnum), CRATE_DEF_INDEX) \in external_exports'
        /\ Unwrap(modules[EarlierCrate].def_id) \in external_exports'
        /\ modules'[EarlierCrate] = modules[EarlierCrate]
        /\ \E k \in DOMAIN calls' : calls'[k].op = "each_top_level_item_of_crate"
                                     /\ calls'[k].module = LaterCrate

\* C37: when the name of an `extern crate` item is the name of an external crate
\* already attached to the same parent module, the builder emits a collision
\* diagnostic and proceeds: the new external module replaces the earlier one in
\* external_module_children under that name, its crate root def id is in
\* external_exports, and the def id of the earlier crate stays in external_exports
C37_ExternCrateCollisionReportedAndReplaced == [][CollisionReportedAndReplaced]_vars

\* two `extern crate` items of one name, bound to two crates, were lowered in the crate
\* root: the collision is reported, the name leads to the second crate, and the root
\* def ids of both crates are in external_exports
C37_Witness ==
    /\ Len(walked) = 2
    /\ JustVisited("ItemExternCrate")
    /\ walked[1].item.node = "ItemExternCrate"
    /\ walked[1].item.name = walked[2].item.name
    /\ IsSome(walked[1].item.cnum) /\ IsSome(walked[2].item.cnum)
    /\ walked[1].item.cnum # walked[2].item.cnum
    /\ \E d \in DOMAIN diags : diags[d].msg = "ExternalCrateAlreadyImported"
    /\ modules[modules[1].external_module_children[walked[2].item.name]].def_id =
           Some(MkDefId(Unwrap(walked[2].item.cnum), CRATE_DEF_INDEX))
    /\ MkDefId(Unwrap(walked[1].item.cnum), CRATE_DEF_INDEX) \in external_exports
    /\ MkDefId(Unwrap(walked[2].item.cnum), CRATE_DEF_INDEX) \in external_exports

(***************************************************************************)
(* C38: Flags::parse (checked under SpecFlags).                            *)
(***************************************************************************)
Parsed == flags.tag = "flags"

\* the command word: the first free argument of the command line
FirstFreeAt ==
    CHOOSE i \in DOMAIN cmdline :
        cmdline[i].kind = "free" /\ \A j \in 1..(i - 1) : cmdline[j].kind # "free"
CommandWord == cmdline[FirstFreeAt].name

Given(arg) == \E i \in DOMAIN cmdline : cmdline[i] = arg
TestGiven == \E i \in DOMAIN cmdline : cmdline[i].kind = "opt" /\ cmdline[i].name = "test"
StageGiven == \E i \in DOMAIN cmdline : cmdline[i].kind = "opt" /\ cmdline[i].name = "stage"

\* the build step and the default stage the claim gives to a command
ClaimedStep(word) ==
    CASE word = "compiler" -> "libtest"
      [] word = "std" -> "libtest"
      [] word = "full" -> "librustc"
      [] word = "doc" -> "doc"
      [] word = "check" -> "check"
      [] word = "clean" -> ""

ClaimedStage(word) ==
    CASE word = "compiler" -> Some(1)
      [] word = "std" -> Some(0)
      [] word = "full" -> Some(2)
      [] word = "doc" -> Some(2)
      [] word = "check" -> Some(2)
      [] word = "clean" -> None

StepAndDefaultStage ==
    (CommandWord # "check" \/ ~TestGiven) =>
        /\ CommandWord = "clean" \/ flags.step = << ClaimedStep(CommandWord) >>
        /\ ~StageGiven => flags.stage = ClaimedStage(CommandWord)

ExplicitStageWins ==
    /\ Given(OptArg("stage", "0")) => flags.stage = Some(0)
    /\ Given(OptArg("stage", "3")) => flags.stage = Some(3)

\* the remaining args are the free arguments after the command word
CommandWordRemoved ==
    /\ Len(flags.args) >= Len(free(cmdline)) - 1
    /\ SubSeq(flags.args, 1, Len(free(cmdline)) - 1) = Tail(free(cmdline))
    /\ ~TestGiven => flags.args = Tail(free(cmdline))

\* C38: Flags::parse maps the first free argument to a build step and default stage:
\* compiler to (libtest, 1), std to (libtest, 0), full to (librustc, 2), doc to
\* (doc, 2), check without --test to (check, 2), clean to clean = true with no default
\* stage; it removes the command word from the remaining args, sets clean = false for
\* every other command, and lets an explicit --stage N override the default stage
C38_FlagsParseCommands ==
    Parsed =>
        /\ CommandWord \in Commands
        /\ StepAndDefaultStage
        /\ ExplicitStageWins
        /\ flags.clean = (CommandWord = "clean")
        /\ CommandWordRemoved

\* `--build b compiler --stage 3` was parsed: the step is libtest, the stage is 3 and
\* not the default 1, and no argument remains
C38_Witness ==
    /\ Parsed
    /\ CommandWord = "compiler"
    /\ Given(OptArg("stage", "3"))
    /\ flags.step = << "libtest" >>
    /\ flags.stage = Some(3)
    /\ ~flags.clean
    /\ flags.args = << >>

\* further cases that are reached: clean without a stage, with the word after it left
\* in args; and check with a default stage of 2
C38_CleanParsed ==
    /\ Parsed
    /\ CommandWord = "clean"
    /\ flags.clean
    /\ flags.stage = None
    /\ flags.args = << "bogus" >>

C38_CheckParsed ==
    /\ Parsed
    /\ CommandWord = "check"
    /\ ~TestGiven
    /\ flags.step = << "check" >>
    /\ flags.stage = Some(2)
====
